---- MODULE Spec2Model ----
(***************************************************************************)
(* indexstar: the scatter/gather fan-out primitive (scatter_gather.go) and *)
(* the JSON find aggregator built on it (find.go, server.doFind).          *)
(*                                                                         *)
(* One request is modelled: doFind scatters over s.backends, one worker    *)
(* goroutine per backend whose breaker is ready, a closer goroutine that   *)
(* closes sg.out once the WaitGroup drains, the gather goroutine that      *)
(* forwards sg.out to gout, and the doFind goroutine that ranges over gout *)
(* and merges.  Go's select is a nondeterministic choice among its ready   *)
(* cases.                                                                  *)
(*                                                                         *)
(* MergeSpec takes the merge loop of doFind alone, with richer backend     *)
(* responses; RouteSpec takes the choice of handler and of the backends a  *)
(* find or find-metadata request is sent to; StreamSpec takes the          *)
(* streaming NDJSON aggregator and NegoSpec the Accept negotiation.        *)
(* ProvSpec takes the providers handlers, ReloadSpec the reload of the     *)
(* backend set, XlateSpec the reframe translator, PmSpec the ProviderMap   *)
(* and RfSpec the legacy reframe service.                                  *)
(***************************************************************************)
EXTENDS Integers, Sequences, FiniteSets, TLC

\* number of backends in s.backends (model bound)
NBackends == 2
Backends == 1..NBackends

\* sg.out = make(chan R, 1)
OutCap == 1
\* gout := make(chan R, 1)
GoutCap == 1


-----------------------------------------------------------------------------
(* model.FindResponse values returned by the backends *)

PR(c, p) == [ContextID |-> c, ProviderID |-> p]
MHR(m, prs) == [Multihash |-> m, ProviderResults |-> prs]
EMHR(m, ks) == [Multihash |-> m, EncryptedValueKeys |-> ks]
FindResponse(mhr, emhr) == [MultihashResults |-> mhr, EncryptedMultihashResults |-> emhr]

EmptyRsp == FindResponse(<<>>, <<>>)

\* the bodies a backend may answer a 200 with
Bodies ==
    { EmptyRsp,
      FindResponse(<<MHR(1, <<PR(1, 1)>>)>>, <<>>),
      FindResponse(<<MHR(2, <<PR(1, 1)>>)>>, <<>>),
      FindResponse(<<>>, <<EMHR(1, <<1>>)>>) }

-----------------------------------------------------------------------------
(* Backend kinds: dhBackend / providersBackend type assertions in doFind *)

BackendKinds == {"plain", "dh"}

\* find.go:238-242 -- double hashed requests go to dh backends only
Eligible(kind, enc) ==
    LET isDhBackend == (kind = "dh")
        isProvidersBackend == (kind = "providers")
    IN ~((enc # isDhBackend) \/ isProvidersBackend)

-----------------------------------------------------------------------------
(* The ways the forEach closure of doFind can return. *)

Outcomes == {"ineligible", "reqerr", "ctxerr", "doerr", "readerr",
             "ok200", "bad200", "s404", "s4xx", "s5xx"}

\* sgResponse sent for backend b; src is the worker that produced it
SgResponse(b, isErr, rsp) == [src |-> b, err |-> isErr, rsp |-> rsp]

\* a nil *sgResponse (no worker is numbered 0), and the nil rsp of an
\* sgResponse{err: err}, which the merge loop never dereferences
Nil == SgResponse(0, FALSE, EmptyRsp)
NilRsp == EmptyRsp


\* ForEachResult with a 5xx answer handed to the aggregator as a result
ForEachResultInBand5xx(b, o, body) ==
    CASE o = "ineligible" -> [sout |-> Nil, err |-> "nil"]
      [] o = "reqerr"     -> [sout |-> Nil, err |-> "err"]
      [] o = "ctxerr"     -> [sout |-> Nil, err |-> "err"]
      [] o = "doerr"      -> [sout |-> SgResponse(b, TRUE, NilRsp), err |-> "nil"]
      [] o = "readerr"    -> [sout |-> Nil, err |-> "err"]
      [] o = "ok200"      -> [sout |-> SgResponse(b, FALSE, body), err |-> "nil"]
      [] o = "bad200"     -> [sout |-> Nil, err |-> "marked"]
      [] o = "s404"       -> [sout |-> Nil, err |-> "nil"]
      [] o = "s4xx"       -> [sout |-> Nil, err |-> "marked"]
      [] o = "s5xx"       -> [sout |-> SgResponse(b, TRUE, NilRsp), err |-> "nil"]

\* (sout, err) returned by the closure: err is "nil", "err" or "marked"
\* (wrapped by circuitbreaker.MarkAsSuccess)
ForEachResult(b, o, body) ==
    CASE o = "ineligible" -> [sout |-> Nil, err |-> "nil"]
      [] o = "reqerr"     -> [sout |-> Nil, err |-> "err"]
      [] o = "ctxerr"     -> [sout |-> Nil, err |-> "err"]
      [] o = "doerr"      -> [sout |-> SgResponse(b, TRUE, NilRsp), err |-> "nil"]
      [] o = "readerr"    -> [sout |-> Nil, err |-> "err"]
      [] o = "ok200"      -> [sout |-> SgResponse(b, FALSE, body), err |-> "nil"]
      [] o = "bad200"     -> [sout |-> Nil, err |-> "marked"]
      [] o = "s404"       -> [sout |-> Nil, err |-> "nil"]
      [] o = "s4xx"       -> [sout |-> Nil, err |-> "marked"]
      [] o = "s5xx"       -> [sout |-> Nil, err |-> "err"]

-----------------------------------------------------------------------------
(* Circuit breaker (github.com/mercari/go-circuitbreaker), as configured   *)
(* by loadBackends: WithFailOnContextCancel(false), fail-on-deadline left  *)
(* at its default (false).  The breaker is a library object: the model     *)
(* keeps the calls the request makes on it, and takes what Ready() answers *)
(* as an input of the scatter loop.                                        *)

\* CBDone for a breaker that does not know MarkAsSuccess
CBDoneUnmarked(cctxErr, err) ==
    CASE err = "nil" -> [rec |-> "success", err |-> "nil"]
      [] OTHER ->
           IF cctxErr \in {"canceled", "deadline"}
           THEN [rec |-> "none", err |-> "err"]
           ELSE [rec |-> "fail", err |-> "err"]

\* CBDone for a breaker built WithFailOnContextCancel(true)
CBDoneFailOnCancel(cctxErr, err) ==
    CASE err = "nil"    -> [rec |-> "success", err |-> "nil"]
      [] err = "marked" -> [rec |-> "success", err |-> "err"]
      [] OTHER ->
           IF cctxErr = "deadline"
           THEN [rec |-> "none", err |-> "err"]
           ELSE [rec |-> "fail", err |-> "err"]

\* target.CB().Done(cctx, err): what is recorded on the breaker ("success",
\* "fail" or "none") and the error handed back.  cctxErr is cctx.Err() at the
\* time of the call; err is "nil", "err" or "marked".
CBDone(cctxErr, err) ==
    CASE err = "nil"    -> [rec |-> "success", err |-> "nil"]
      [] err = "marked" -> [rec |-> "success", err |-> "err"]
      [] OTHER ->
           IF cctxErr \in {"canceled", "deadline"}
           THEN [rec |-> "none", err |-> "err"]
           ELSE [rec |-> "fail", err |-> "err"]

-----------------------------------------------------------------------------
(* The merge loop of doFind, find.go:322-364 *)

SamePR(a, b) == a.ContextID = b.ContextID /\ a.ProviderID = b.ProviderID

\* MergeProviderResults without the test for a result already listed
MergeProviderResultsNoDedup(acc, prs, k) ==
    [prs |-> acc \o prs, skip |-> FALSE]

RECURSIVE MergeProviderResults(_, _, _)
\* find.go:338-347: append the provider results of the response that are not
\* yet listed; a result already listed leaves the loops by `continue outer`
MergeProviderResults(acc, prs, k) ==
    IF k > Len(prs) THEN [prs |-> acc, skip |-> FALSE]
    ELSE IF \E j \in 1..Len(acc) : SamePR(acc[j], prs[k])
         THEN [prs |-> acc, skip |-> TRUE]
         ELSE MergeProviderResults(Append(acc, prs[k]), prs, k + 1)

\* MergePlain without the comparison of the multihashes
MergePlainNoConflict(resp, rsp) ==
    IF Len(rsp.MultihashResults) = 0
    THEN [resp |-> resp, conflict |-> FALSE, skip |-> FALSE]
    ELSE IF Len(resp.MultihashResults) = 0
    THEN [resp |-> [resp EXCEPT !.MultihashResults = rsp.MultihashResults],
          conflict |-> FALSE, skip |-> FALSE]
    ELSE LET m == MergeProviderResults(resp.MultihashResults[1].ProviderResults,
                                       rsp.MultihashResults[1].ProviderResults, 1)
         IN [resp |-> [resp EXCEPT !.MultihashResults[1].ProviderResults = m.prs],
             conflict |-> FALSE, skip |-> m.skip]

\* find.go:328-349
MergePlain(resp, rsp) ==
    IF Len(rsp.MultihashResults) = 0
    THEN [resp |-> resp, conflict |-> FALSE, skip |-> FALSE]
    ELSE IF Len(resp.MultihashResults) = 0
    THEN [resp |-> [resp EXCEPT !.MultihashResults = rsp.MultihashResults],
          conflict |-> FALSE, skip |-> FALSE]
    ELSE IF resp.MultihashResults[1].Multihash # rsp.MultihashResults[1].Multihash
    THEN [resp |-> resp, conflict |-> TRUE, skip |-> FALSE]
    ELSE LET m == MergeProviderResults(resp.MultihashResults[1].ProviderResults,
                                       rsp.MultihashResults[1].ProviderResults, 1)
         IN [resp |-> [resp EXCEPT !.MultihashResults[1].ProviderResults = m.prs],
             conflict |-> FALSE, skip |-> m.skip]

\* MergeEncrypted keeping the keys of the first response only
MergeEncryptedKeepFirst(resp, rsp) ==
    IF Len(rsp.EncryptedMultihashResults) = 0
    THEN [resp |-> resp, conflict |-> FALSE]
    ELSE IF Len(resp.EncryptedMultihashResults) = 0
    THEN [resp |-> [resp EXCEPT !.EncryptedMultihashResults = rsp.EncryptedMultihashResults],
          conflict |-> FALSE]
    ELSE IF resp.EncryptedMultihashResults[1].Multihash
              # rsp.EncryptedMultihashResults[1].Multihash
    THEN [resp |-> resp, conflict |-> TRUE]
    ELSE [resp |-> resp, conflict |-> FALSE]

\* find.go:351-363
MergeEncrypted(resp, rsp) ==
    IF Len(rsp.EncryptedMultihashResults) = 0
    THEN [resp |-> resp, conflict |-> FALSE]
    ELSE IF Len(resp.EncryptedMultihashResults) = 0
    THEN [resp |-> [resp EXCEPT !.EncryptedMultihashResults = rsp.EncryptedMultihashResults],
          conflict |-> FALSE]
    ELSE IF resp.EncryptedMultihashResults[1].Multihash
              # rsp.EncryptedMultihashResults[1].Multihash
    THEN [resp |-> resp, conflict |-> TRUE]
    ELSE [resp |-> [resp EXCEPT !.EncryptedMultihashResults[1].EncryptedValueKeys =
                       @ \o rsp.EncryptedMultihashResults[1].EncryptedValueKeys],
          conflict |-> FALSE]

\* one iteration of the loop body for a response without error
MergeResponse(resp, rsp) ==
    LET p == MergePlain(resp, rsp)
    IN IF p.conflict \/ p.skip
       THEN [resp |-> p.resp, conflict |-> p.conflict]
       ELSE MergeEncrypted(p.resp, rsp)

\* find.go:328-349: the provider IDs s.pcounts.Add is called with while the
\* loop body runs on rsp: one call after each append to the merged entry,
\* none when rsp's entry becomes the merged entry
AddCalls(resp, rsp) ==
    LET m == MergePlain(resp, rsp)
    IN IF resp.MultihashResults = <<>> \/ m.resp.MultihashResults = <<>> \/ m.conflict
       THEN <<>>
       ELSE LET old == resp.MultihashResults[1].ProviderResults
                new == m.resp.MultihashResults[1].ProviderResults
            IN [i \in 1..(Len(new) - Len(old)) |-> new[Len(old) + i].ProviderID]

StatusOK == 200
StatusNotFound == 404
StatusInternalServerError == 500
StatusGatewayTimeout == 504

\* FinalStatus without the test on gatherErrs
FinalStatusNoErrCheck(resp, nGatherErrs) ==
    IF Len(resp.MultihashResults) = 0 /\ Len(resp.EncryptedMultihashResults) = 0
    THEN StatusNotFound
    ELSE StatusOK

\* find.go:369-398
FinalStatus(resp, nGatherErrs) ==
    IF Len(resp.MultihashResults) = 0 /\ Len(resp.EncryptedMultihashResults) = 0
    THEN IF nGatherErrs # 0 THEN StatusGatewayTimeout ELSE StatusNotFound
    ELSE StatusOK

-----------------------------------------------------------------------------
(* State of one doFind request *)

VARIABLES
    backendMenu, \* how the backends of this run can answer: "all" or "live"
    encrypted,   \* doFind's dh-or-plain flag
    kind,        \* kind of each backend of s.backends
    cbReady,     \* what Ready() answered when scatter reached the backend
    cbRec,       \* what this request recorded on each backend's breaker
    ctx,         \* doFind's ctx: "active", "canceled" (by the caller) or
                 \* "returned" (the deferred cancel() of doFind has run)
    preCancelled,\* ctx was already cancelled when scatter was called
    dpc,         \* doFind goroutine: "scatter", "range", "returned"
    idx,         \* next backend of the range loop in scatter
    pc,          \* worker goroutine of each backend
    expired,     \* the maxWait deadline of the worker's cctx has passed
    fe,          \* what forEach returned to each worker
    sout,        \* the result a worker is about to emit
    wg,          \* sg.wg counter
    out,         \* sg.out buffer
    outClosed,   \* close(sg.out) has run
    gpc,         \* gather goroutine: "none", "select", "forward", "done"
    gr,          \* the r held by the gather goroutine
    gout,        \* gout buffer
    goutCloses,  \* number of times close(gout) has run
    resp,        \* merged model.FindResponse
    gatherErrs,  \* len(gatherErrs)
    got,         \* number of results the doFind loop read, by producing worker
    status       \* status doFind returned, 0 while running

findVars == <<backendMenu, encrypted, kind, cbReady, cbRec, ctx, preCancelled, dpc, idx, pc,
              expired, fe, sout, wg, out, outClosed, gpc, gr, gout, goutCloses, resp,
              gatherErrs, got, status>>

(* State of the merge loop of doFind taken alone: the results of the       *)
(* backends reach the loop one at a time, in any order.                    *)
VARIABLE merge   \* a record of the fields named below

mEncrypted == merge.encrypted \* doFind's dh-or-plain flag
mfe == merge.fe               \* how each backend answered, NoRet before it has
mbody == merge.body           \* the model.FindResponse a backend answered a 200 with
mOrder == merge.order         \* the backends whose sgResponse the loop read, in order
mResp == merge.resp           \* merged model.FindResponse
mErrs == merge.gatherErrs     \* len(gatherErrs)
mAdds == merge.adds           \* the provider IDs s.pcounts.Add was called with, in order
mStatus == merge.status       \* status doFind returned, 0 while running

(* State of one request to a find or find-metadata route: which handler    *)
(* serves it and which backends it issues an HTTP request to.              *)
VARIABLE route   \* a record of the fields named below

cascadeLabels == route.cascadeLabels \* config.Server.CascadeLabels, as a set of labels
translateNonStreaming == route.translateNonStreaming \* s.translateNonStreaming
rKind == route.kind           \* kind of each backend of s.backends
rq == route.rq                \* the request: route, multihash code, Accept, cascade query
handler == route.handler      \* the function that serves the request, "none" before
rpc == route.pc               \* how the closure of the handler ended for each backend
mdReply == route.mdReply      \* what a backend answered to a find-metadata request
mdRead == route.mdRead        \* the backends whose result the find-metadata loop read
mdStatus == route.mdStatus    \* status findMetadataSubtree answered, 0 while running
mdBody == route.mdBody        \* the backend whose body findMetadataSubtree answered, 0 if none

(* State of one streaming doFindNDJson request: the lines the workers scan, *)
(* resultsChan, the seen set and what the encoder loop wrote.               *)
VARIABLE stream  \* a record of the fields named below

sBody == stream.body          \* the records of the lines of each backend's 200 response
sSent == stream.sent          \* how many of them the worker has sent to resultsChan
resultsChan == stream.resultsChan \* buffered records, oldest first
sClosed == stream.closed      \* resultsChan is closed
results == stream.results     \* resultSet: the checksums seen
sWritten == stream.written    \* the records encoded to the client, in order
sCtx == stream.ctx            \* the request's context: "active", "canceled"
lpc == stream.lpc             \* the encoder loop: "loop", or the case that broke it: "closed", "done"
sStatus == stream.status      \* response status, 0 while none is written
sPanic == stream.panic        \* a goroutine panicked: the process is gone

(* State of the Accept negotiation of one find request. *)
VARIABLE nego    \* a record of the fields named below

aHeader == nego.header        \* r.Header.Values("Accept"): the values, each a text
aTranslate == nego.translate  \* s.translateNonStreaming
acc == nego.acc               \* what getAccepts returned, NoAccepts before
outcome == nego.outcome       \* what find did with the request, "none" before

(* State of one merge of provider records, by /providers or by            *)
(* /providers/{id}.                                                        *)
VARIABLE prov    \* a record of the fields named below

pHandler == prov.handler      \* "providers" or "provider"
pAnswer == prov.answer        \* what each backend answers, NoAnswer if it sends nothing
pRead == prov.read            \* the backends whose answer the merge loop has read, in order
pResp == prov.resp            \* resp: the record kept for each peer, NoInfo if none
pStatus == prov.status        \* status written, 0 while the loop runs

(* State of the server's backend set under Reload calls and requests.      *)
VARIABLE reload  \* a record of the fields named below

backendSets == reload.sets    \* the length of every backend slice built so far, by its array
installed == reload.installed \* the words of s.backends: the array and the length
reloader == reload.reloader   \* Reload: "idle", or "store" with the slice b and the words to write
rReloads == reload.reloads    \* the Reload calls made
snapshot == reload.snapshot   \* per request: the words of s.backends it has read
toRead == reload.toRead       \* per request: the words it has yet to read

(* State of one FindProviders call of the reframe translator.              *)
VARIABLE xlate   \* a record of the fields named below

xStatus == xlate.status       \* the status the core find returns
xBody == xlate.body           \* the body it returns with a 200
xpc == xlate.pc               \* the goroutine: "find", "output", "returned"
outMsg == xlate.outMsg        \* the FindProvidersAsyncResult built
xOut == xlate.out             \* the elements the caller received from out
xClosed == xlate.closed       \* out is closed
xCtx == xlate.ctx             \* the caller's context: "active", "canceled"
xCaller == xlate.caller       \* the caller: "receiving" from out, or "gone"

(* State of one ProviderMap used by concurrent goroutines: Add calls and   *)
(* one Top call.                                                          *)
VARIABLE pm      \* a record of the fields named below

cardinality == pm.cardinality \* pm.cardinality
providers == pm.providers     \* pm.providers: the counter of each provider, 0 if none
cells == pm.cells             \* the atomic.Int64 values allocated, by address
readers == pm.readers         \* goroutines holding pm.lock for reading
writer == pm.writer           \* a goroutine holds pm.lock for writing
aProv == pm.aProv             \* the provider each Add call is for
apc == pm.apc                 \* position of each Add call
ac == pm.c                    \* the c of each Add call, 0 while nil
locked == pm.locked           \* lock acquisitions of each goroutine
unlocked == pm.unlocked       \* lock releases of each goroutine
tpc == pm.tpc                 \* position of the Top call
pairs == pm.pairs             \* the pairs Top collected
top == pm.top                 \* what Top returned

(* State of one call of the legacy ReframeService.FindProviders: its      *)
(* workers, the gather goroutine, the aggregating goroutine and the caller *)
VARIABLE rf      \* a record of the fields named below

rfAns == rf.ans               \* what each backend answers when it is asked
rfCtx == rf.ctx               \* the ctx of FindProviders: "active", "canceled"
rfWpc == rf.wpc               \* worker of each backend: "start", "call", "emit", "done"
rfRes == rf.res               \* what forEach returned to each worker, <<>> before
rfSgOut == rf.sgOut           \* sg.out buffer
rfSgClosed == rf.sgClosed     \* close(sg.out) has run
rfGr == rf.gr                 \* the r held by the gather goroutine, <<>> if none
rfGout == rf.gout             \* gout buffer
rfGoutClosed == rf.goutClosed \* close(gout) has run
rfPids == rf.pids             \* pids of the aggregating goroutine
rfLastErr == rf.lastErr       \* lastErr # nil
rfApc == rf.apc               \* aggregating goroutine: "range", "send", "senderr", "done"
rfResult == rf.result         \* the element it is about to send
rfChan == rf.chan             \* buffer of the channel returned to the caller
rfClosed == rf.closed         \* that channel is closed
rfYielded == rf.yielded       \* the elements the caller received

\* the views after the Accept negotiation
laterViews == <<prov, reload, xlate, pm, rf>>
earlierViews == <<findVars, merge, route, stream, nego>>
\* what the actions of one of them leave alone
butProv == <<earlierViews, reload, xlate, pm, rf>>
butReload == <<earlierViews, prov, xlate, pm, rf>>
butXlate == <<earlierViews, prov, reload, pm, rf>>
butPm == <<earlierViews, prov, reload, xlate, rf>>
butRf == <<earlierViews, prov, reload, xlate, pm>>

vars == <<findVars, merge, route, stream, nego, laterViews>>

\* fe[b] before forEach has returned
NoRet == "none"

ctxDone == ctx # "active"
goutClosed == goutCloses > 0

\* every answer of an eligible backend
AllReturns ==
    {<<o, NilRsp>> : o \in Outcomes \ {"ineligible", "ok200"}}
        \cup {<<"ok200", body>> : body \in Bodies}

\* the liveness properties are checked for plain backends that answer 200
\* with one of two multihashes, answer 5xx, or cannot be connected to
LiveReturns ==
    {<<"ok200", FindResponse(<<MHR(1, <<PR(1, 1)>>)>>, <<>>)>>,
     <<"ok200", FindResponse(<<MHR(2, <<PR(1, 1)>>)>>, <<>>)>>,
     <<"s5xx", NilRsp>>, <<"doerr", NilRsp>>}

\* the answers named by backendMenu
Menu == IF backendMenu = "live" THEN LiveReturns ELSE AllReturns

\* what does not depend on the backends' answers
InitRequest ==
    /\ cbReady = [b \in Backends |-> "unknown"]
    /\ cbRec = [b \in Backends |-> "none"]
    /\ ctx \in {"active", "canceled"}
    /\ preCancelled = (ctx = "canceled")
    /\ dpc = "scatter"
    /\ idx = 1
    /\ pc = [b \in Backends |-> "idle"]
    /\ expired = [b \in Backends |-> FALSE]
    /\ fe = [b \in Backends |-> NoRet]
    /\ sout = [b \in Backends |-> Nil]
    /\ wg = 0
    /\ out = <<>>
    /\ outClosed = FALSE
    /\ gpc = "none"
    /\ gr = Nil
    /\ gout = <<>>
    /\ goutCloses = 0
    /\ resp = EmptyRsp
    /\ gatherErrs = 0
    /\ got = [b \in Backends |-> 0]
    /\ status = 0

\* the merge loop before any result has reached it
MergeStart(enc) ==
    [encrypted |-> enc,
     fe |-> [b \in Backends |-> NoRet],
     body |-> [b \in Backends |-> EmptyRsp],
     order |-> <<>>,
     resp |-> EmptyRsp,
     gatherErrs |-> 0,
     adds |-> <<>>,
     status |-> 0]

\* a request that has reached the mux and no handler yet
RouteStart(labels, translate, kinds, r) ==
    [cascadeLabels |-> labels,
     translateNonStreaming |-> translate,
     kind |-> kinds,
     rq |-> r,
     handler |-> "none",
     pc |-> [b \in Backends |-> "idle"],
     mdReply |-> [b \in Backends |-> "none"],
     mdRead |-> {},
     mdStatus |-> 0,
     mdBody |-> 0]

\* the variables of the other views, which a specification leaves alone
FindIdle ==
    /\ backendMenu = "all"
    /\ encrypted = FALSE
    /\ kind = [b \in Backends |-> "plain"]
    /\ InitRequest
    /\ ctx = "active"

\* the variable of a view under the specifications that do not take it: no
\* request of that view is in progress
Unused == "unused"

MergeIdle == merge = Unused

RouteIdle == route = Unused

\* doFindNDJson before any worker has scanned a line
StreamStart(bodies) ==
    [body |-> bodies,
     sent |-> [b \in Backends |-> 0],
     resultsChan |-> <<>>,
     closed |-> FALSE,
     results |-> {},
     written |-> <<>>,
     ctx |-> "active",
     lpc |-> "loop",
     status |-> 0,
     panic |-> FALSE]

StreamIdle == stream = Unused

\* the zero value of accepts, with getAccepts' error as a fifth field
NoAccepts ==
    [any |-> FALSE, ndjson |-> FALSE, json |-> FALSE,
     acceptHeaderFound |-> FALSE, err |-> FALSE]

\* a find request that has reached find and not yet getAccepts
NegoStart(header, translate) ==
    [header |-> header, translate |-> translate, acc |-> NoAccepts,
     outcome |-> "none"]

NegoIdle == nego = Unused

ProvIdle == prov = Unused

EarlierIdle == FindIdle /\ MergeIdle /\ RouteIdle /\ StreamIdle /\ NegoIdle
ReloadIdle == reload = Unused
XlateIdle == xlate = Unused
PmIdle == pm = Unused
RfIdle == rf = Unused
LaterIdle == ProvIdle /\ ReloadIdle /\ XlateIdle /\ PmIdle /\ RfIdle
ButProvIdle == EarlierIdle /\ ReloadIdle /\ XlateIdle /\ PmIdle /\ RfIdle
ButReloadIdle == EarlierIdle /\ ProvIdle /\ XlateIdle /\ PmIdle /\ RfIdle
ButXlateIdle == EarlierIdle /\ ProvIdle /\ ReloadIdle /\ PmIdle /\ RfIdle
ButPmIdle == EarlierIdle /\ ProvIdle /\ ReloadIdle /\ XlateIdle /\ RfIdle
ButRfIdle == EarlierIdle /\ ProvIdle /\ ReloadIdle /\ XlateIdle /\ PmIdle

Init ==
    /\ backendMenu = "all"
    /\ encrypted \in BOOLEAN
    /\ kind \in [Backends -> BackendKinds]
    /\ InitRequest
    /\ MergeIdle
    /\ RouteIdle
    /\ StreamIdle
    /\ NegoIdle
    /\ LaterIdle

-----------------------------------------------------------------------------
(* scatter, scatter_gather.go:96-139 *)

\* ScatterStep without the test of the breaker
ScatterStepNoGate ==
    /\ dpc = "scatter"
    /\ idx \in Backends
    /\ idx' = idx + 1
    /\ \E ready \in BOOLEAN :
         /\ cbReady' = [cbReady EXCEPT ![idx] = IF ready THEN "ready" ELSE "notready"]
         /\ pc' = [pc EXCEPT ![idx] = "start"]
         /\ wg' = wg + 1
    /\ UNCHANGED <<merge, route, stream, nego, laterViews>>
    /\ UNCHANGED <<backendMenu, encrypted, kind, cbRec, ctx, preCancelled, dpc,
                   expired, fe, sout, out, outClosed, gpc, gr, gout, goutCloses,
                   resp, gatherErrs, got, status>>

\* one iteration of `for _, backend := range sg.backends`; ready is what
\* backend.CB().Ready() answers (a nil breaker counts as ready)
ScatterStep ==
    /\ dpc = "scatter"
    /\ idx \in Backends
    /\ idx' = idx + 1
    /\ \E ready \in BOOLEAN :
         /\ cbReady' = [cbReady EXCEPT ![idx] = IF ready THEN "ready" ELSE "notready"]
         /\ IF ~ready
            THEN /\ pc' = [pc EXCEPT ![idx] = "skipped"]
                 /\ wg' = wg
            ELSE /\ pc' = [pc EXCEPT ![idx] = "start"]
                 /\ wg' = wg + 1
    /\ UNCHANGED <<merge, route, stream, nego, laterViews>>
    /\ UNCHANGED <<backendMenu, encrypted, kind, cbRec, ctx, preCancelled, dpc,
                   expired, fe, sout, out, outClosed, gpc, gr, gout, goutCloses,
                   resp, gatherErrs, got, status>>

\* the loop is over: the closer goroutine is started, scatter returns nil and
\* doFind calls sg.gather(ctx), which starts the gather goroutine
ScatterReturn ==
    /\ dpc = "scatter"
    /\ idx > NBackends
    /\ dpc' = "range"
    /\ gpc' = "select"
    /\ UNCHANGED <<merge, route, stream, nego, laterViews>>
    /\ UNCHANGED <<backendMenu, encrypted, kind, cbReady, cbRec, ctx, preCancelled, idx, pc,
                   expired, fe, sout, wg, out, outClosed, gr, gout, goutCloses,
                   resp, gatherErrs, got, status>>

\* WorkerStart without the select on ctx.Done()
WorkerStartNoCtxCheck(b) ==
    /\ pc[b] = "start"
    /\ pc' = [pc EXCEPT ![b] = "call"]
    /\ wg' = wg
    /\ UNCHANGED <<merge, route, stream, nego, laterViews>>
    /\ UNCHANGED <<backendMenu, encrypted, kind, cbReady, cbRec, ctx, preCancelled,
                   dpc, idx, expired, fe, sout, out, outClosed, gpc, gr, gout,
                   goutCloses, resp, gatherErrs, got, status>>

\* scatter_gather.go:109-114, the first select of the worker
WorkerStart(b) ==
    /\ pc[b] = "start"
    /\ IF ctxDone
       THEN /\ pc' = [pc EXCEPT ![b] = "done"]
            /\ wg' = wg - 1
       ELSE /\ pc' = [pc EXCEPT ![b] = "call"]
            /\ wg' = wg
    /\ UNCHANGED <<merge, route, stream, nego, laterViews>>
    /\ UNCHANGED <<backendMenu, encrypted, kind, cbReady, cbRec, ctx, preCancelled, dpc, idx,
                   expired, fe, sout, out, outClosed, gpc, gr, gout, goutCloses,
                   resp, gatherErrs, got, status>>

\* the timer of context.WithTimeout(ctx, sg.maxWait) fires
Timeout(b) ==
    /\ pc[b] = "call"
    /\ ~expired[b]
    /\ expired' = [expired EXCEPT ![b] = TRUE]
    /\ UNCHANGED <<merge, route, stream, nego, laterViews>>
    /\ UNCHANGED <<backendMenu, encrypted, kind, cbReady, cbRec, ctx, preCancelled, dpc, idx, pc,
                   fe, sout, wg, out, outClosed, gpc, gr, gout, goutCloses,
                   resp, gatherErrs, got, status>>

\* what the closure of doFind can return for backend b now: a backend of the
\* wrong kind is not asked; the client reports a context error only once cctx
\* is done
PossibleReturns(b) ==
    IF ~Eligible(kind[b], encrypted) THEN {<<"ineligible", NilRsp>>}
    ELSE {r \in Menu : r[1] = "ctxerr" => (expired[b] \/ ctxDone)}

\* scatter_gather.go:117-131: forEach returns, cancel(), CB().Done, and the
\* tests on err and sout
ForEachReturn(b) ==
    /\ pc[b] = "call"
    /\ \E r \in PossibleReturns(b) :
         LET o == r[1]
             res == ForEachResult(b, o, r[2])
             cctxErr == IF expired[b] THEN "deadline" ELSE "canceled"
             d == CBDone(cctxErr, res.err)
         IN /\ fe' = [fe EXCEPT ![b] = o]
            /\ cbRec' = [cbRec EXCEPT ![b] = d.rec]
            /\ IF d.err # "nil" \/ res.sout = Nil
               THEN /\ pc' = [pc EXCEPT ![b] = "done"]
                    /\ wg' = wg - 1
                    /\ sout' = sout
               ELSE /\ pc' = [pc EXCEPT ![b] = "send"]
                    /\ wg' = wg
                    /\ sout' = [sout EXCEPT ![b] = res.sout]
    /\ UNCHANGED <<merge, route, stream, nego, laterViews>>
    /\ UNCHANGED <<backendMenu, encrypted, kind, cbReady, ctx, preCancelled, dpc,
                   idx, expired, out,
                   outClosed, gpc, gr, gout, goutCloses, resp, gatherErrs, got,
                   status>>

\* WorkerSend as a non-blocking send: the result is dropped when sg.out is full
WorkerSendNonBlocking(b) ==
    /\ pc[b] = "send"
    /\ out' = IF Len(out) < OutCap THEN Append(out, sout[b]) ELSE out
    /\ pc' = [pc EXCEPT ![b] = "done"]
    /\ sout' = [sout EXCEPT ![b] = Nil]
    /\ wg' = wg - 1
    /\ UNCHANGED <<merge, route, stream, nego, laterViews>>
    /\ UNCHANGED <<backendMenu, encrypted, kind, cbReady, cbRec, ctx, preCancelled,
                   dpc, idx, expired, fe, outClosed, gpc, gr, gout, goutCloses,
                   resp, gatherErrs, got, status>>

\* WorkerSend as a plain blocking send, without the ctx.Done() case
WorkerSendNoCancel(b) ==
    /\ pc[b] = "send"
    /\ Len(out) < OutCap
    /\ out' = Append(out, sout[b])
    /\ pc' = [pc EXCEPT ![b] = "done"]
    /\ sout' = [sout EXCEPT ![b] = Nil]
    /\ wg' = wg - 1
    /\ UNCHANGED <<merge, route, stream, nego, laterViews>>
    /\ UNCHANGED <<backendMenu, encrypted, kind, cbReady, cbRec, ctx, preCancelled,
                   dpc, idx, expired, fe, outClosed, gpc, gr, gout, goutCloses,
                   resp, gatherErrs, got, status>>

\* scatter_gather.go:127-130: select { case <-ctx.Done(): case sg.out <- *sout: }
WorkerSend(b) ==
    /\ pc[b] = "send"
    /\ \/ /\ ctxDone
          /\ out' = out
       \/ /\ Len(out) < OutCap
          /\ out' = Append(out, sout[b])
    /\ pc' = [pc EXCEPT ![b] = "done"]
    /\ sout' = [sout EXCEPT ![b] = Nil]
    /\ wg' = wg - 1
    /\ UNCHANGED <<merge, route, stream, nego, laterViews>>
    /\ UNCHANGED <<backendMenu, encrypted, kind, cbReady, cbRec, ctx, preCancelled, dpc, idx,
                   expired, fe, outClosed, gpc, gr, gout, goutCloses, resp,
                   gatherErrs, got, status>>

\* scatter_gather.go:134-137: sg.wg.Wait() returns, close(sg.out)
CloseOut ==
    /\ dpc # "scatter"
    /\ wg = 0
    /\ ~outClosed
    /\ outClosed' = TRUE
    /\ UNCHANGED <<merge, route, stream, nego, laterViews>>
    /\ UNCHANGED <<backendMenu, encrypted, kind, cbReady, cbRec, ctx, preCancelled, dpc, idx, pc,
                   expired, fe, sout, wg, out, gpc, gr, gout, goutCloses, resp,
                   gatherErrs, got, status>>

-----------------------------------------------------------------------------
(* gather, scatter_gather.go:141-167 *)

\* the outer select: ctx.Done() or a receive from sg.out
GatherSelect ==
    /\ gpc = "select"
    /\ \/ /\ ctxDone
          /\ gpc' = "done"
          /\ goutCloses' = goutCloses + 1
          /\ UNCHANGED <<out, gr>>
       \/ /\ Len(out) > 0
          /\ gr' = Head(out)
          /\ out' = Tail(out)
          /\ gpc' = "forward"
          /\ UNCHANGED goutCloses
       \/ /\ Len(out) = 0
          /\ outClosed
          /\ gpc' = "done"
          /\ goutCloses' = goutCloses + 1
          /\ UNCHANGED <<out, gr>>
    /\ UNCHANGED <<merge, route, stream, nego, laterViews>>
    /\ UNCHANGED <<backendMenu, encrypted, kind, cbReady, cbRec, ctx, preCancelled, dpc, idx, pc,
                   expired, fe, sout, wg, outClosed, gout, resp, gatherErrs,
                   got, status>>

\* GatherForward returning on ctx.Done() without closing gout
GatherForwardNoClose ==
    /\ gpc = "forward"
    /\ \/ /\ ctxDone
          /\ gpc' = "done"
          /\ gout' = gout
       \/ /\ Len(gout) < GoutCap
          /\ gout' = Append(gout, gr)
          /\ gpc' = "select"
    /\ gr' = Nil
    /\ UNCHANGED <<merge, route, stream, nego, laterViews>>
    /\ UNCHANGED <<backendMenu, encrypted, kind, cbReady, cbRec, ctx, preCancelled,
                   dpc, idx, pc, expired, fe, sout, wg, out, outClosed,
                   goutCloses, resp, gatherErrs, got, status>>

\* the inner select: ctx.Done() or gout <- r
GatherForward ==
    /\ gpc = "forward"
    /\ \/ /\ ctxDone
          /\ gpc' = "done"
          /\ goutCloses' = goutCloses + 1
          /\ gout' = gout
       \/ /\ Len(gout) < GoutCap
          /\ gout' = Append(gout, gr)
          /\ gpc' = "select"
          /\ UNCHANGED goutCloses
    /\ gr' = Nil
    /\ UNCHANGED <<merge, route, stream, nego, laterViews>>
    /\ UNCHANGED <<backendMenu, encrypted, kind, cbReady, cbRec, ctx, preCancelled, dpc, idx, pc,
                   expired, fe, sout, wg, out, outClosed, resp, gatherErrs,
                   got, status>>

-----------------------------------------------------------------------------
(* doFind, find.go:322-399: the range over sg.gather(ctx) *)

\* one iteration of `for r := range sg.gather(ctx)`
DoFindRecv ==
    /\ dpc = "range"
    /\ Len(gout) > 0
    /\ LET r == Head(gout)
       IN /\ gout' = Tail(gout)
          /\ got' = [got EXCEPT ![r.src] = @ + 1]
          /\ IF r.err
             THEN /\ gatherErrs' = gatherErrs + 1
                  /\ UNCHANGED <<resp, status, dpc, ctx>>
             ELSE LET m == MergeResponse(resp, r.rsp)
                  IN /\ gatherErrs' = gatherErrs
                     /\ IF m.conflict
                        THEN /\ status' = StatusInternalServerError
                             /\ dpc' = "returned"
                             /\ ctx' = IF ctx = "active" THEN "returned" ELSE ctx
                             /\ resp' = resp
                        ELSE /\ resp' = m.resp
                             /\ UNCHANGED <<status, dpc, ctx>>
    /\ UNCHANGED <<merge, route, stream, nego, laterViews>>
    /\ UNCHANGED <<backendMenu, encrypted, kind, cbReady, cbRec, preCancelled, idx, pc, expired,
                   fe, sout, wg, out, outClosed, gpc, gr, goutCloses>>

\* gout is closed and drained: the loop ends, the status is decided and the
\* deferred cancel() runs
DoFindFinish ==
    /\ dpc = "range"
    /\ Len(gout) = 0
    /\ goutClosed
    /\ status' = FinalStatus(resp, gatherErrs)
    /\ dpc' = "returned"
    /\ ctx' = IF ctx = "active" THEN "returned" ELSE ctx
    /\ UNCHANGED <<merge, route, stream, nego, laterViews>>
    /\ UNCHANGED <<backendMenu, encrypted, kind, cbReady, cbRec, preCancelled, idx, pc, expired,
                   fe, sout, wg, out, outClosed, gpc, gr, gout, goutCloses,
                   resp, gatherErrs, got>>

\* the caller's context is cancelled (the client went away)
Cancel ==
    /\ ctx = "active"
    /\ ctx' = "canceled"
    /\ UNCHANGED <<merge, route, stream, nego, laterViews>>
    /\ UNCHANGED <<backendMenu, encrypted, kind, cbReady, cbRec, preCancelled, dpc, idx, pc,
                   expired, fe, sout, wg, out, outClosed, gpc, gr, gout,
                   goutCloses, resp, gatherErrs, got, status>>

Next ==
    \/ ScatterStep
    \/ ScatterReturn
    \/ \E b \in Backends : WorkerStart(b)
    \/ \E b \in Backends : Timeout(b)
    \/ \E b \in Backends : ForEachReturn(b)
    \/ \E b \in Backends : WorkerSend(b)
    \/ CloseOut
    \/ GatherSelect
    \/ GatherForward
    \/ DoFindRecv
    \/ DoFindFinish
    \/ Cancel

Spec == Init /\ [][Next]_vars

\* every goroutine keeps running and every forEach eventually returns; the
\* caller's cancellation, timers and other requests are not forced to happen
Fairness ==
    /\ WF_vars(ScatterStep)
    /\ WF_vars(ScatterReturn)
    /\ \A b \in Backends : WF_vars(WorkerStart(b))
    /\ \A b \in Backends : WF_vars(ForEachReturn(b))
    /\ \A b \in Backends : WF_vars(WorkerSend(b))
    /\ WF_vars(CloseOut)
    /\ WF_vars(GatherSelect)
    /\ WF_vars(GatherForward)
    /\ WF_vars(DoFindRecv)
    /\ WF_vars(DoFindFinish)

LiveInit ==
    /\ backendMenu = "live"
    /\ encrypted = FALSE
    /\ kind = [b \in Backends |-> "plain"]
    /\ InitRequest
    /\ MergeIdle
    /\ RouteIdle
    /\ StreamIdle
    /\ NegoIdle
    /\ LaterIdle

LiveSpec == LiveInit /\ [][Next]_vars /\ Fairness

-----------------------------------------------------------------------------
(* The merge loop of doFind taken alone, find.go:322-398.  Every backend   *)
(* is eligible and its breaker ready; ctx is not cancelled, so each result *)
(* a worker emits reaches the loop, in the order the workers finish.       *)

\* most provider results in one backend response (model bound)
MaxPRs == 2
\* most encrypted value keys in one backend response (model bound)
MaxKeys == 2

Multihashes == {1, 2}
\* (ContextID, ProviderID) pairs: two of a context, two of a provider
Pairs == {PR(1, 1), PR(1, 2), PR(2, 1)}
KeyIds == {1, 2}

\* the non-empty sequences over S of length at most n
SeqsUpTo(S, n) == UNION {[1..k -> S] : k \in 1..n}

\* no pair is listed twice
NoRepeat(prs) ==
    \A i, j \in 1..Len(prs) : SamePR(prs[i], prs[j]) => i = j

\* the provider result lists of a backend; the lists that repeat a pair are
\* kept to two entries
PRLists == {prs \in SeqsUpTo(Pairs, MaxPRs) : NoRepeat(prs) \/ Len(prs) <= 2}

\* the bodies a backend answers a 200 with: no entry, or the one entry of the
\* multihash it was asked for, of the kind of the request
MergeBodies(enc) ==
    {EmptyRsp} \cup
    (IF enc
     THEN {FindResponse(<<>>, <<EMHR(m, ks)>>) :
               m \in Multihashes, ks \in SeqsUpTo(KeyIds, MaxKeys)}
     ELSE {FindResponse(<<MHR(m, prs)>>, <<>>) :
               m \in Multihashes, prs \in PRLists})

\* the answers of a backend: connect failure, timeout, 5xx, 404, or a 200
MergeReturns(enc) ==
    {<<o, NilRsp>> : o \in {"doerr", "ctxerr", "s5xx", "s404"}}
        \cup {<<"ok200", body>> : body \in MergeBodies(enc)}

\* scatter_gather.go:121-131: the worker emits what forEach returned
Emits(b, r) ==
    LET res == ForEachResult(b, r[1], r[2])
        d == CBDone(IF r[1] = "ctxerr" THEN "deadline" ELSE "canceled", res.err)
    IN d.err = "nil" /\ res.sout # Nil

\* a backend answers and its worker emits nothing
MergeDrop(b) ==
    /\ mStatus = 0
    /\ mfe[b] = NoRet
    /\ \E r \in MergeReturns(mEncrypted) :
         /\ ~Emits(b, r)
         /\ merge' = [merge EXCEPT !.fe[b] = r[1]]
    /\ UNCHANGED <<findVars, route, stream, nego, laterViews>>

\* MergeRecv for a loop that gives up on the first error it reads
MergeRecvErrAborts(b) ==
    /\ mStatus = 0
    /\ mfe[b] = NoRet
    /\ \E r \in MergeReturns(mEncrypted) :
         /\ Emits(b, r)
         /\ LET rsp == ForEachResult(b, r[1], r[2]).sout
                read == [merge EXCEPT !.fe[b] = r[1], !.body[b] = rsp.rsp,
                                      !.order = Append(@, b)]
            IN IF rsp.err
               THEN merge' = [read EXCEPT !.gatherErrs = @ + 1,
                                          !.status = StatusGatewayTimeout]
               ELSE LET m == MergeResponse(mResp, rsp.rsp)
                    IN IF m.conflict
                       THEN merge' = [read EXCEPT !.status = StatusInternalServerError]
                       ELSE merge' = [read EXCEPT !.resp = m.resp,
                                                  !.adds = @ \o AddCalls(mResp, rsp.rsp)]
    /\ UNCHANGED <<findVars, route, stream, nego, laterViews>>

\* find.go:322-364: a backend answers, its worker emits the result and the
\* loop body runs on it
MergeRecv(b) ==
    /\ mStatus = 0
    /\ mfe[b] = NoRet
    /\ \E r \in MergeReturns(mEncrypted) :
         /\ Emits(b, r)
         /\ LET rsp == ForEachResult(b, r[1], r[2]).sout
                read == [merge EXCEPT !.fe[b] = r[1], !.body[b] = rsp.rsp,
                                      !.order = Append(@, b)]
            IN IF rsp.err
               THEN merge' = [read EXCEPT !.gatherErrs = @ + 1]
               ELSE LET m == MergeResponse(mResp, rsp.rsp)
                    IN IF m.conflict
                       THEN merge' = [read EXCEPT !.status = StatusInternalServerError]
                       ELSE merge' = [read EXCEPT !.resp = m.resp,
                                                  !.adds = @ \o AddCalls(mResp, rsp.rsp)]
    /\ UNCHANGED <<findVars, route, stream, nego, laterViews>>

\* find.go:366-398: every worker has finished, gout is closed and drained
MergeFinish ==
    /\ mStatus = 0
    /\ \A b \in Backends : mfe[b] # NoRet
    /\ merge' = [merge EXCEPT !.status = FinalStatus(mResp, mErrs)]
    /\ UNCHANGED <<findVars, route, stream, nego, laterViews>>

MergeNext ==
    \/ \E b \in Backends : MergeDrop(b)
    \/ \E b \in Backends : MergeRecv(b)
    \/ MergeFinish

MergeInit ==
    /\ \E enc \in BOOLEAN : merge = MergeStart(enc)
    /\ FindIdle
    /\ RouteIdle
    /\ StreamIdle
    /\ NegoIdle
    /\ LaterIdle

MergeSpec == MergeInit /\ [][MergeNext]_vars

-----------------------------------------------------------------------------
(* Routing of one request: find (find.go:165-205, doFind, doFindNDJson)    *)
(* and find-metadata (find.go:73-163).  The cid routes differ from the     *)
(* multihash routes only in how the multihash is decoded from the path.    *)

\* the kinds of backend loadBackends builds: SimpleBackend, caskadeBackend,
\* dhBackend, providersBackend
RouteKinds == {"plain", "cascade", "dh", "providers"}

\* values of config.Server.CascadeLabels, split at the commas: "", "ipfs-dht"
\* or "ipfs-dht,ipni"
CascadeConfigs == {{}, {"ipfs-dht"}, {"ipfs-dht", "ipni"}}
\* values of the cascade query parameter of a request: absent, one value,
\* or two values
CascadeQueries == {{}, {"ipfs-dht"}, {"legacy"}, {"legacy", "ipni"}}

FindRoutes == {"/multihash/", "/encrypted/multihash/"}
MetadataRoute == "/metadata/"

\* the encrypted argument the mux gives the find handlers
RouteEncrypted(path) == path = "/encrypted/multihash/"

\* the Accept header is "ndjson" when it lists application/x-ndjson, "json"
\* when it lists application/json or */* or is absent, else "other"
FindRequests ==
    [route : FindRoutes, code : {"DBL_SHA2_256", "SHA2_256"},
     accept : {"ndjson", "json", "other"}, cascade : CascadeQueries]
MetadataRequests ==
    [route : {MetadataRoute}, code : {"none"}, accept : {"none"},
     cascade : CascadeQueries]

\* Matchers.QueryParam("cascade", value)
QueryParam(value, r) == value \in r.cascade

\* Matches with Matchers.Any for every backend
MatchesAny(k, labels, r) == TRUE

\* b.Matches(req): cascade backends match on the configured labels, if any;
\* every other backend has Matchers.Any
Matches(k, labels, r) ==
    IF k = "cascade" /\ labels # {}
    THEN \E label \in labels : QueryParam(label, r)
    ELSE TRUE

\* find.go:73, 183-204: the function that serves the request
Dispatch(r, translate) ==
    IF r.route = MetadataRoute THEN "findMetadataSubtree"
    ELSE CASE r.accept = "ndjson" -> "doFindNDJson"
           [] r.accept = "json" -> IF translate THEN "doFindNDJson" ELSE "doFind"
           [] OTHER -> "400"

\* find.go:236-261: how the closure of doFind ends before Client.Do
DoFindClosure(k, enc, matches) ==
    IF ~Eligible(k, enc) THEN "ineligible"
    ELSE IF ~matches THEN "unmatched"
    ELSE "sent"

\* find_ndjson.go:166-185: how the closure of doFindNDJson ends before
\* Client.Do; it looks neither at the kind of the backend nor at the route
NDJsonClosure(k, enc, matches) ==
    IF ~matches THEN "unmatched" ELSE "sent"

\* MetadataClosure without the test of the backend's kind
MetadataClosureAnyKind(k, matches) ==
    IF ~matches THEN "unmatched" ELSE "sent"

\* find.go:91-112: how the closure of findMetadataSubtree ends before
\* Client.Do
MetadataClosure(k, matches) ==
    LET isDhBackend == (k = "dh")
    IN IF ~isDhBackend THEN "ineligible"
       ELSE IF ~matches THEN "unmatched"
       ELSE "sent"

\* what a backend answers to a find-metadata request: 200 with metadata, 200
\* with an empty body, 404, or a failure (transport, other status)
MetadataReplies == {"ok_body", "ok_empty", "s404", "err"}

\* the mux hands the request to its handler
RouteDispatch ==
    /\ handler = "none"
    /\ route' = [route EXCEPT !.handler = Dispatch(rq, translateNonStreaming)]
    /\ UNCHANGED <<findVars, merge, stream, nego, laterViews>>

\* scatter_gather.go:99-103: the breaker of the backend is not ready
RouteSkip(b) ==
    /\ handler \in {"doFind", "doFindNDJson", "findMetadataSubtree"}
    /\ mdStatus = 0
    /\ rpc[b] = "idle"
    /\ route' = [route EXCEPT !.pc[b] = "skipped"]
    /\ UNCHANGED <<findVars, merge, stream, nego, laterViews>>

\* the closure of doFind runs for backend b
DoFindAsk(b) ==
    /\ handler = "doFind"
    /\ rpc[b] = "idle"
    /\ route' = [route EXCEPT !.pc[b] =
                    DoFindClosure(rKind[b], RouteEncrypted(rq.route),
                                  Matches(rKind[b], cascadeLabels, rq))]
    /\ UNCHANGED <<findVars, merge, stream, nego, laterViews>>

\* the closure of doFindNDJson runs for backend b
NDJsonAsk(b) ==
    /\ handler = "doFindNDJson"
    /\ rpc[b] = "idle"
    /\ route' = [route EXCEPT !.pc[b] =
                    NDJsonClosure(rKind[b], RouteEncrypted(rq.route),
                                  Matches(rKind[b], cascadeLabels, rq))]
    /\ UNCHANGED <<findVars, merge, stream, nego, laterViews>>

\* the closure of findMetadataSubtree runs for backend b
MetadataAsk(b) ==
    /\ handler = "findMetadataSubtree"
    /\ mdStatus = 0
    /\ rpc[b] = "idle"
    /\ LET end == MetadataClosure(rKind[b], Matches(rKind[b], cascadeLabels, rq))
       IN IF end = "sent"
          THEN \E a \in MetadataReplies :
                   route' = [route EXCEPT !.pc[b] = end, !.mdReply[b] = a]
          ELSE route' = [route EXCEPT !.pc[b] = end]
    /\ UNCHANGED <<findVars, merge, stream, nego, laterViews>>

\* the results the workers of findMetadataSubtree emit: the 200 bodies
MetadataEmitted == {b \in Backends : mdReply[b] \in {"ok_body", "ok_empty"}}

\* find.go:149-161: the loop reads the body of backend b and answers with it
\* unless it is empty
MetadataRecv(b) ==
    /\ handler = "findMetadataSubtree"
    /\ mdStatus = 0
    /\ b \in MetadataEmitted \ mdRead
    /\ IF mdReply[b] = "ok_body"
       THEN route' = [route EXCEPT !.mdRead = @ \cup {b}, !.mdStatus = StatusOK,
                                   !.mdBody = b]
       ELSE route' = [route EXCEPT !.mdRead = @ \cup {b}]
    /\ UNCHANGED <<findVars, merge, stream, nego, laterViews>>

\* find.go:162: every worker has finished and gout is drained and closed
MetadataClose ==
    /\ handler = "findMetadataSubtree"
    /\ mdStatus = 0
    /\ \A b \in Backends : rpc[b] # "idle"
    /\ mdRead = MetadataEmitted
    /\ route' = [route EXCEPT !.mdStatus = StatusNotFound]
    /\ UNCHANGED <<findVars, merge, stream, nego, laterViews>>

RouteNext ==
    \/ RouteDispatch
    \/ \E b \in Backends : RouteSkip(b)
    \/ \E b \in Backends : DoFindAsk(b)
    \/ \E b \in Backends : NDJsonAsk(b)
    \/ \E b \in Backends : MetadataAsk(b)
    \/ \E b \in Backends : MetadataRecv(b)
    \/ MetadataClose

RouteInit ==
    /\ \E labels \in CascadeConfigs, translate \in BOOLEAN,
          kinds \in [Backends -> RouteKinds], r \in FindRequests \cup MetadataRequests :
            route = RouteStart(labels, translate, kinds, r)
    /\ FindIdle
    /\ MergeIdle
    /\ StreamIdle
    /\ NegoIdle
    /\ LaterIdle

RouteSpec == RouteInit /\ [][RouteNext]_vars

-----------------------------------------------------------------------------
(* The streaming NDJSON aggregator, find_ndjson.go:137-329 with            *)
(* translateNonStreaming false.  A worker scans the lines of its backend's *)
(* 200 response and sends each record to resultsChan; a backend that       *)
(* answers anything else, or whose scan ends early, is a backend with      *)
(* fewer lines.  Scatter and gather are as in Spec: gather's channel       *)
(* closes once every worker has returned.                                  *)

\* most lines a backend answers with
MaxLines == 2
\* number of values of the checksum; crc32.ChecksumIEEE has 2^32
ChecksumSpace == 3
\* cap(resultsChan), find_ndjson.go:163
ResultsChanCap == 1

\* a model.ProviderResult line and an EncryptedValueKey line; ids are bytes
PlainRecord(p, c) == [provider |-> p, contextID |-> c, evk |-> 0]
EncryptedRecord(k) == [provider |-> 0, contextID |-> 0, evk |-> k]
StreamRecords == {PlainRecord(1, 1), PlainRecord(2, 2), EncryptedRecord(1)}

\* the lines of one backend: it lists no record twice; of the bodies of
\* more than two lines one order is kept
StreamBodies ==
    {<<>>} \cup {ls \in SeqsUpTo(StreamRecords, MaxLines) :
                    /\ \A i, j \in 1..Len(ls) : ls[i] = ls[j] => i = j
                    /\ Len(ls) > 2 => ls[1] = PlainRecord(1, 1) /\ ls[2] = PlainRecord(2, 2)}

\* key bytes made of the provider ID alone
KeyBytesProviderOnly(r) ==
    IF r.evk # 0 THEN <<r.evk>> ELSE <<r.provider>>

\* the bytes putIfAbsent hashes, find_ndjson.go:44-54
KeyBytes(r) ==
    IF r.evk # 0 THEN <<r.evk>> ELSE <<r.provider, r.contextID>>

\* a checksum of fixed width: the remainder of the bytes read as a number
RECURSIVE Crc(_, _)
Crc(v, h) ==
    IF v = <<>> THEN h ELSE Crc(Tail(v), (2 * h + Head(v)) % ChecksumSpace)

Checksum(v) == Crc(v, 0)

\* putIfAbsent that takes every record as new
PutIfAbsentAlways(seen, r) ==
    [absent |-> TRUE, results |-> seen \cup {Checksum(KeyBytes(r))}]

\* resultSet.putIfAbsent, find_ndjson.go:43-63
PutIfAbsent(seen, r) ==
    LET key == Checksum(KeyBytes(r))
    IN IF key \in seen
       THEN [absent |-> FALSE, results |-> seen]
       ELSE [absent |-> TRUE, results |-> seen \cup {key}]

\* the worker of b has sent every line of its backend
SentAll(b) == sSent[b] = Len(sBody[b])

\* the worker of b has returned: its scan ended, or it can have taken
\* <-cctx.Done() (find_ndjson.go:212-213, 235-236)
WorkerDone(b) == SentAll(b) \/ sCtx = "canceled"

\* resultsChan <- &result taken while resultsChan is open,
\* find_ndjson.go:234-238
StreamSend(b) ==
    /\ ~sPanic
    /\ ~SentAll(b)
    /\ ~sClosed
    /\ Len(resultsChan) < ResultsChanCap
    /\ stream' = [stream EXCEPT
                     !.resultsChan = Append(@, sBody[b][sSent[b] + 1]),
                     !.sent[b] = @ + 1]
    /\ UNCHANGED <<findVars, merge, route, nego, laterViews>>

\* the closing goroutine closes resultsChan as soon as it started
DrainCloseEarly ==
    /\ ~sPanic
    /\ ~sClosed
    /\ stream' = [stream EXCEPT !.closed = TRUE]
    /\ UNCHANGED <<findVars, merge, route, nego, laterViews>>

\* gather's channel is closed, which it is once every worker has returned
\* or ctx is done (scatter_gather.go:150-152): close(resultsChan),
\* find_ndjson.go:268-280
DrainClose ==
    /\ ~sPanic
    /\ ~sClosed
    /\ \A b \in Backends : WorkerDone(b)
    /\ stream' = [stream EXCEPT !.closed = TRUE]
    /\ UNCHANGED <<findVars, merge, route, nego, laterViews>>

\* resultsChan <- &result taken by a worker that has not returned while
\* resultsChan is closed, find_ndjson.go:232-236: the send panics
StreamSendClosed(b) ==
    /\ ~sPanic
    /\ ~SentAll(b)
    /\ sClosed
    /\ stream' = [stream EXCEPT !.panic = TRUE]
    /\ UNCHANGED <<findVars, merge, route, nego, laterViews>>

\* result, ok := <-resultsChan with ok true, find_ndjson.go:287-319
StreamRecv ==
    /\ ~sPanic
    /\ lpc = "loop"
    /\ resultsChan # <<>>
    /\ LET r == Head(resultsChan)
           put == PutIfAbsent(results, r)
       IN stream' = [stream EXCEPT
                       !.resultsChan = Tail(@),
                       !.results = put.results,
                       !.written = IF put.absent THEN Append(@, r) ELSE @,
                       !.status = IF put.absent THEN StatusOK ELSE @]
    /\ UNCHANGED <<findVars, merge, route, nego, laterViews>>

\* break LOOP, then the 404 rule, find_ndjson.go:285-286, 288-290, 323-326
StreamExit ==
    /\ ~sPanic
    /\ lpc = "loop"
    /\ \E case \in {"done", "closed"} :
         /\ case = "done" => sCtx = "canceled"
         /\ case = "closed" => resultsChan = <<>> /\ sClosed
         /\ stream' = [stream EXCEPT
                          !.lpc = case,
                          !.status = IF results = {} THEN StatusNotFound ELSE @]
    /\ UNCHANGED <<findVars, merge, route, nego, laterViews>>

\* the client goes away or the request's deadline passes
StreamCancel ==
    /\ ~sPanic
    /\ sCtx = "active"
    /\ lpc = "loop"
    /\ stream' = [stream EXCEPT !.ctx = "canceled"]
    /\ UNCHANGED <<findVars, merge, route, nego, laterViews>>

StreamNext ==
    \/ \E b \in Backends : StreamSend(b)
    \/ \E b \in Backends : StreamSendClosed(b)
    \/ DrainClose
    \/ StreamRecv
    \/ StreamExit
    \/ StreamCancel

StreamInit ==
    /\ \E bodies \in [Backends -> StreamBodies] : stream = StreamStart(bodies)
    /\ FindIdle
    /\ MergeIdle
    /\ RouteIdle
    /\ NegoIdle
    /\ LaterIdle

StreamSpec == StreamInit /\ [][StreamNext]_vars

-----------------------------------------------------------------------------
(* Accept negotiation of find, header.go:22-41 and find.go:176-204.  A     *)
(* header value is a text: a sequence of pieces, each a "," or the text of *)
(* one media type.                                                         *)

\* most pieces of one header value
MaxPieces == 3

mediaTypeNDJson == "application/x-ndjson"
mediaTypeJson == "application/json"
mediaTypeAny == "*/*"

Comma == ","
\* the media type texts the header values are made of
MediaTexts ==
    {"application/x-ndjson", "application/json", " Application/JSON;q=0.9",
     "*/*;q=0.8", "text/html", ";;;;"}

\* the header values; a second value of the same header is kept to one piece
AcceptValues == {<<>>} \cup SeqsUpTo(MediaTexts \cup {Comma}, MaxPieces)
AcceptHeaders ==
    {<<>>} \cup {<<v>> : v \in AcceptValues}
           \cup {<<v, w>> : v \in AcceptValues, w \in {x \in AcceptValues : Len(x) <= 1}}

\* index of the first "," of a text, 0 if it has none
RECURSIVE IndexComma(_, _)
IndexComma(v, i) ==
    IF i > Len(v) THEN 0
    ELSE IF v[i] = Comma THEN i ELSE IndexComma(v, i + 1)

\* strings.Split(accept, ","): the texts between the commas; one empty text
\* for an empty value
RECURSIVE Split(_)
Split(v) ==
    LET i == IndexComma(v, 1)
    IN IF i = 0 THEN <<v>>
       ELSE <<SubSeq(v, 1, i - 1)>> \o Split(SubSeq(v, i + 1, Len(v)))

\* mime.ParseMediaType on one text between commas: the media type in lower
\* case without blanks and parameters, or an error for an empty text, a text
\* that does not start with type/subtype, or content after the subtype that
\* is not a parameter (as when two media types are not separated)
ParseMediaType(amt) ==
    IF Len(amt) # 1 THEN [mt |-> "", err |-> TRUE]
    ELSE CASE amt[1] = "application/x-ndjson" -> [mt |-> "application/x-ndjson", err |-> FALSE]
           [] amt[1] = "application/json" -> [mt |-> "application/json", err |-> FALSE]
           [] amt[1] = " Application/JSON;q=0.9" -> [mt |-> "application/json", err |-> FALSE]
           [] amt[1] = "*/*;q=0.8" -> [mt |-> "*/*", err |-> FALSE]
           [] amt[1] = "text/html" -> [mt |-> "text/html", err |-> FALSE]
           [] OTHER -> [mt |-> "", err |-> TRUE]

\* the inner loop of getAccepts over the texts of one value, header.go:28-38
RECURSIVE ScanTypes(_, _)
ScanTypes(amts, a) ==
    IF amts = <<>> \/ a.err THEN a
    ELSE LET p == ParseMediaType(Head(amts))
         IN ScanTypes(Tail(amts),
                CASE p.err -> [a EXCEPT !.err = TRUE]
                  [] p.mt = mediaTypeNDJson -> [a EXCEPT !.ndjson = TRUE]
                  [] p.mt = mediaTypeJson -> [a EXCEPT !.json = TRUE]
                  [] p.mt = mediaTypeAny -> [a EXCEPT !.any = TRUE]
                  [] OTHER -> a)

\* the outer loop of getAccepts over the values, header.go:26-39
RECURSIVE ScanValues(_, _)
ScanValues(values, a) ==
    IF values = <<>> \/ a.err THEN a
    ELSE ScanValues(Tail(values), ScanTypes(Split(Head(values)), a))

\* getAccepts, header.go:22-41
GetAccepts(values) ==
    ScanValues(values, [NoAccepts EXCEPT !.acceptHeaderFound = Len(values) > 0])

\* the switch of find with the JSON case tried first
FindSwitchJsonFirst(a, translate) ==
    IF a.err THEN "400 invalid Accept header"
    ELSE IF a.json \/ a.any \/ ~a.acceptHeaderFound
         THEN IF translate THEN "doFindNDJson translate" ELSE "doFind"
         ELSE IF a.ndjson THEN "doFindNDJson"
              ELSE "400 unsupported media type"

\* find after the multihash is decoded, find.go:176-204
FindSwitch(a, translate) ==
    IF a.err THEN "400 invalid Accept header"
    ELSE IF a.ndjson THEN "doFindNDJson"
         ELSE IF a.json \/ a.any \/ ~a.acceptHeaderFound
              THEN IF translate THEN "doFindNDJson translate" ELSE "doFind"
              ELSE "400 unsupported media type"

\* find, from getAccepts to the choice of the handler
Negotiate ==
    /\ outcome = "none"
    /\ LET a == GetAccepts(aHeader)
       IN nego' = [nego EXCEPT !.acc = a, !.outcome = FindSwitch(a, aTranslate)]
    /\ UNCHANGED <<findVars, merge, route, stream, laterViews>>

NegoNext == Negotiate

NegoInit ==
    /\ \E header \in AcceptHeaders, translate \in BOOLEAN :
         nego = NegoStart(header, translate)
    /\ FindIdle
    /\ MergeIdle
    /\ RouteIdle
    /\ StreamIdle
    /\ LaterIdle

NegoSpec == NegoInit /\ [][NegoNext]_vars

-----------------------------------------------------------------------------
(* Merge of provider records, providers.go:16-100 (/providers) and         *)
(* providers.go:103-178 (/providers/{id}).  Each backend is asked by a     *)
(* goroutine of its own, which sends its answer on the unbuffered channel  *)
(* combined when the status is 200 and the body decodes; the handler reads *)
(* combined until it is closed.                                            *)

Peers == {1, 2}
\* LastAdvertisementTime texts: none, not a time, and three RFC 3339 times of
\* which the last two are the same instant
TimeTexts ==
    {"", "yesterday", "2023-01-01T00:00:00Z", "2023-01-02T00:00:00Z",
     "2023-01-02T01:00:00+01:00"}

\* time.Parse(time.RFC3339, text): the instant, in hours from 2023-01-01T00:00Z
ParseTime(text) ==
    IF text = "2023-01-01T00:00:00Z" THEN [ok |-> TRUE, t |-> 0]
    ELSE IF text = "2023-01-02T00:00:00Z" THEN [ok |-> TRUE, t |-> 24]
    ELSE IF text = "2023-01-02T01:00:00+01:00" THEN [ok |-> TRUE, t |-> 24]
    ELSE [ok |-> FALSE, t |-> 0]

\* model.ProviderInfo, and the zero value
ProviderInfo(id, text) == [ID |-> id, LastAdvertisementTime |-> text]
NoInfo == [ID |-> 0, LastAdvertisementTime |-> ""]
\* a backend that sends nothing: request or decoding failed, or status not 200
NoAnswer == "none"

\* the list a backend answers /providers with: at most one record per peer
ProviderLists == [Peers -> TimeTexts \cup {NoAnswer}]
\* what a backend answers /providers/{id} with, for the peer 1: one record,
\* or nothing
ProviderAnswers == {l \in ProviderLists : l[2] = NoAnswer}

\* e1 == nil && e2 == nil && clt.Before(plt), providers.go:75-77, 160-162
Newer(curr, p) ==
    LET clt == ParseTime(curr.LastAdvertisementTime)
        plt == ParseTime(p.LastAdvertisementTime)
    IN clt.ok /\ plt.ok /\ clt.t < plt.t

\* the body of the inner loop of providers for one record, providers.go:74-82
PutInfo(curr, p) ==
    IF curr # NoInfo
    THEN IF Newer(curr, p) THEN p ELSE curr
    ELSE p

\* the body of the loop of provider, providers.go:159-167
KeepInfo(curr, p) ==
    IF curr.LastAdvertisementTime # ""
    THEN IF Newer(curr, p) THEN p ELSE curr
    ELSE p

ProvStart(h, answers) ==
    [handler |-> h, answer |-> answers, read |-> <<>>,
     resp |-> [q \in Peers |-> NoInfo], status |-> 0]

WasRead(b) == \E i \in 1..Len(pRead) : pRead[i] = b

\* for prov := range combined, one list, providers.go:72-84
ProvidersRecv(b) ==
    /\ pHandler = "providers"
    /\ pStatus = 0
    /\ ~WasRead(b)
    /\ prov' = [prov EXCEPT
                   !.read = Append(@, b),
                   !.resp = [q \in Peers |->
                                IF pAnswer[b][q] = NoAnswer THEN @[q]
                                ELSE PutInfo(@[q], ProviderInfo(q, pAnswer[b][q]))]]
    /\ UNCHANGED butProv

\* for p := range combined, one record, providers.go:158-168
ProviderRecv(b) ==
    /\ pHandler = "provider"
    /\ pStatus = 0
    /\ ~WasRead(b)
    /\ pAnswer[b][1] # NoAnswer
    /\ prov' = [prov EXCEPT
                   !.read = Append(@, b),
                   !.resp[1] = KeepInfo(@, ProviderInfo(1, pAnswer[b][1]))]
    /\ UNCHANGED butProv

\* combined is closed once every goroutine has returned; the answer is
\* written, providers.go:66-69, 89-99, 152-155, 171-177
ProvWrite ==
    /\ pStatus = 0
    /\ \A b \in Backends :
         WasRead(b) \/ (pHandler = "provider" /\ pAnswer[b][1] = NoAnswer)
    /\ prov' = [prov EXCEPT !.status = StatusOK]
    /\ UNCHANGED butProv

ProvNext ==
    \/ \E b \in Backends : ProvidersRecv(b)
    \/ \E b \in Backends : ProviderRecv(b)
    \/ ProvWrite

ProvInit ==
    /\ \/ \E answers \in [Backends -> ProviderLists] :
             prov = ProvStart("providers", answers)
       \/ \E answers \in [Backends -> ProviderAnswers] :
             prov = ProvStart("provider", answers)
    /\ ButProvIdle

ProvSpec == ProvInit /\ [][ProvNext]_vars

-----------------------------------------------------------------------------
(* Reload (part_011:238-253) against the requests that read s.backends     *)
(* (find.go:86, find.go:228, find_ndjson.go:157).  s.backends is a slice:  *)
(* two words that matter here, the array and the length.  Reload assigns   *)
(* it and the handlers read it without a lock or an atomic, so the words   *)
(* are written and read one at a time, in either order.                    *)

\* most Reload calls
MaxReloads == 2
\* the requests in flight
MaxRequests == 2
Requests == 1..MaxRequests
Words == {"array", "len"}

ReloadStart(n) ==
    [sets |-> <<n>>,
     installed |-> [array |-> 1, len |-> n],
     reloader |-> [pc |-> "idle", b |-> [array |-> 0, len |-> 0], toWrite |-> {}],
     reloads |-> 0,
     snapshot |-> [r \in Requests |-> [array |-> 0, len |-> 0]],
     toRead |-> [r \in Requests |-> Words]]

\* Load or loadBackends fails: return err, part_011:239-249
ReloadFail ==
    /\ reloader.pc = "idle"
    /\ rReloads < MaxReloads
    /\ reload' = [reload EXCEPT !.reloads = @ + 1]
    /\ UNCHANGED butReload

\* Load and loadBackends succeed: b is a new slice of n backends,
\* part_011:239-249
ReloadBuild ==
    /\ reloader.pc = "idle"
    /\ rReloads < MaxReloads
    /\ \E n \in 1..NBackends :
         reload' = [reload EXCEPT
                      !.reloads = @ + 1,
                      !.sets = Append(@, n),
                      !.reloader = [pc |-> "store",
                                    b |-> [array |-> Len(backendSets) + 1, len |-> n],
                                    toWrite |-> Words]]
    /\ UNCHANGED butReload

\* s.backends = b, one word of it, part_011:250
ReloadStore(w) ==
    /\ reloader.pc = "store"
    /\ w \in reloader.toWrite
    /\ reload' = [reload EXCEPT
                     !.installed[w] = reloader.b[w],
                     !.reloader = [@ EXCEPT
                                     !.pc = IF reloader.toWrite = {w} THEN "idle" ELSE @,
                                     !.toWrite = @ \ {w}]]
    /\ UNCHANGED butReload

\* backends: s.backends in a handler, one word of it, find.go:228
RequestRead(r, w) ==
    /\ w \in toRead[r]
    /\ reload' = [reload EXCEPT
                     !.snapshot[r][w] = installed[w],
                     !.toRead[r] = @ \ {w}]
    /\ UNCHANGED butReload

ReloadNext ==
    \/ ReloadFail
    \/ ReloadBuild
    \/ \E w \in Words : ReloadStore(w)
    \/ \E r \in Requests, w \in Words : RequestRead(r, w)

ReloadInit ==
    /\ \E n \in 1..NBackends : reload = ReloadStart(n)
    /\ ButReloadIdle

ReloadSpec == ReloadInit /\ [][ReloadNext]_vars

-----------------------------------------------------------------------------
(* The reframe translator, reframe_translator.go:147-213: FindProviders    *)
(* starts a goroutine that asks the core find, reshapes its answer into    *)
(* one FindProvidersAsyncResult and offers it on the unbuffered channel    *)
(* out, which it closes when it returns.                                   *)

\* most provider results of the multihash result
MaxProviders == 2
\* multicodec.TransportBitswap
TransportBitswap == 2304
\* multicodec.TransportGraphsyncFilecoinv1
TransportGraphsync == 2320

\* varint.ToUvarint: seven bits a byte, low bits first, the top bit set on
\* every byte but the last
RECURSIVE ToUvarint(_)
ToUvarint(n) ==
    IF n < 128 THEN <<n>> ELSE <<128 + (n % 128)>> \o ToUvarint(n \div 128)

BitswapMetadataBytes == ToUvarint(TransportBitswap)

\* bytes.HasPrefix
HasPrefix(bytes, prefix) ==
    /\ Len(bytes) >= Len(prefix)
    /\ SubSeq(bytes, 1, Len(prefix)) = prefix

\* isBitswapMetadata with bytes.Equal
IsBitswapMetadataEqual(meta) == meta = BitswapMetadataBytes

\* isBitswapMetadata, reframe_translator.go:207-213
IsBitswapMetadata(meta) == HasPrefix(meta, BitswapMetadataBytes)

\* metadata values: none, Bitswap alone, Bitswap followed by Graphsync,
\* Graphsync alone, and the first byte of Bitswap alone
Metadatas ==
    {<<>>, ToUvarint(TransportBitswap),
     ToUvarint(TransportBitswap) \o ToUvarint(TransportGraphsync) \o <<0>>,
     ToUvarint(TransportGraphsync) \o <<0>>,
     <<Head(ToUvarint(TransportBitswap))>>}

XProviderResults == [ID : Peers, Metadata : Metadatas]
\* the bodies of the core find: not JSON, or the provider results of each
\* of its multihash results
XBody(parses, mhrs) == [parses |-> parses, MultihashResults |-> mhrs]
XBodies ==
    {XBody(FALSE, <<>>), XBody(TRUE, <<>>), XBody(TRUE, <<<<>>, <<>>>>)}
        \cup {XBody(TRUE, <<prs>>) :
                  prs \in {<<>>} \cup SeqsUpTo(XProviderResults, MaxProviders)}
XStatuses == {StatusOK, StatusNotFound, StatusInternalServerError, StatusGatewayTimeout}

\* the loop over the provider results, reframe_translator.go:178-184
RECURSIVE BitswapProviders(_, _)
BitswapProviders(prs, addrs) ==
    IF prs = <<>> THEN addrs
    ELSE LET prv == Head(prs)
             seen == \E i \in 1..Len(addrs) : addrs[i] = prv.ID
         IN BitswapProviders(Tail(prs),
                IF ~seen /\ IsBitswapMetadata(prv.Metadata)
                THEN Append(addrs, prv.ID) ELSE addrs)

NoMsg == [AddrInfo |-> <<>>, Err |-> "nil"]

\* from the answer of the core find to the label output,
\* reframe_translator.go:163-186
Reshape(st, body) ==
    IF st # StatusOK THEN [NoMsg EXCEPT !.Err = "status"]
    ELSE IF ~body.parses THEN [NoMsg EXCEPT !.Err = "unmarshal"]
    ELSE IF Len(body.MultihashResults) # 1
         THEN [NoMsg EXCEPT !.Err = "unexpected number of multihashes"]
         ELSE [NoMsg EXCEPT
                 !.AddrInfo = BitswapProviders(body.MultihashResults[1], <<>>)]

XlateStart(st, body) ==
    [status |-> st, body |-> body, pc |-> "find", outMsg |-> NoMsg,
     out |-> <<>>, closed |-> FALSE, ctx |-> "active", caller |-> "receiving"]

\* findBackend returns; 404 returns at once, and the deferred close(out)
\* runs, reframe_translator.go:155-186
XlateFind ==
    /\ xpc = "find"
    /\ IF xStatus = StatusNotFound
       THEN xlate' = [xlate EXCEPT !.pc = "returned", !.closed = TRUE]
       ELSE xlate' = [xlate EXCEPT !.pc = "output", !.outMsg = Reshape(xStatus, xBody)]
    /\ UNCHANGED butXlate

\* the select at output: the caller receives outMsg, or ctx is done; then
\* the deferred close(out), reframe_translator.go:189-196
XlateOutput ==
    /\ xpc = "output"
    /\ \/ /\ xCaller = "receiving"
          /\ xlate' = [xlate EXCEPT !.out = Append(@, outMsg), !.pc = "returned",
                                    !.closed = TRUE]
       \/ /\ xCtx = "canceled"
          /\ xlate' = [xlate EXCEPT !.pc = "returned", !.closed = TRUE]
    /\ UNCHANGED butXlate

\* the caller cancels ctx
XlateCancel ==
    /\ xCtx = "active"
    /\ xpc # "returned"
    /\ xlate' = [xlate EXCEPT !.ctx = "canceled"]
    /\ UNCHANGED butXlate

\* the caller stops receiving from out
XlateCallerGone ==
    /\ xCaller = "receiving"
    /\ xpc # "returned"
    /\ xlate' = [xlate EXCEPT !.caller = "gone"]
    /\ UNCHANGED butXlate

XlateNext ==
    \/ XlateFind
    \/ XlateOutput
    \/ XlateCancel
    \/ XlateCallerGone

XlateInit ==
    /\ \E st \in XStatuses, body \in XBodies :
         /\ st # StatusOK => body = XBody(FALSE, <<>>)
         /\ xlate = XlateStart(st, body)
    /\ ButXlateIdle

XlateSpec == XlateInit /\ [][XlateNext]_vars

\* the goroutine is scheduled
XlateLiveSpec == XlateSpec /\ WF_vars(XlateFind) /\ WF_vars(XlateOutput)

-----------------------------------------------------------------------------
(* ProviderMap: concurrent Add calls and a Top call                        *)

\* number of concurrent Add calls (model bound)
MaxAdds == 2
Adders == 1..MaxAdds
\* the goroutine of the Top call, for the lock counts
Topper == MaxAdds + 1

\* NewProviderMap, then the calls are made
PmStart(card, provs) ==
    [cardinality |-> card,
     providers |-> [p \in Peers |-> 0],
     cells |-> <<>>,
     readers |-> 0,
     writer |-> FALSE,
     aProv |-> provs,
     apc |-> [a \in Adders |-> "start"],
     c |-> [a \in Adders |-> 0],
     locked |-> [g \in Adders \cup {Topper} |-> 0],
     unlocked |-> [g \in Adders \cup {Topper} |-> 0],
     tpc |-> "start",
     pairs |-> <<>>,
     top |-> <<>>]

\* pm.lock.RLock() at the start of Add
AddRLock(a) ==
    /\ apc[a] = "start"
    /\ ~writer
    /\ pm' = [pm EXCEPT !.readers = @ + 1, !.locked[a] = @ + 1, !.apc[a] = "lookup"]
    /\ UNCHANGED butPm

\* c, exists = pm.providers[provider]
AddLookup(a) ==
    /\ apc[a] = "lookup"
    /\ pm' = [pm EXCEPT !.c[a] = providers[aProv[a]],
                        !.apc[a] = IF providers[aProv[a]] # 0 THEN "add" ELSE "runlock"]
    /\ UNCHANGED butPm

\* the slow case: pm.lock.RUnlock()
AddRUnlock(a) ==
    /\ apc[a] = "runlock"
    /\ pm' = [pm EXCEPT !.readers = @ - 1, !.unlocked[a] = @ + 1, !.apc[a] = "lock"]
    /\ UNCHANGED butPm

\* pm.lock.Lock(): returns when no goroutine holds the lock
AddLock(a) ==
    /\ apc[a] = "lock"
    /\ ~writer /\ readers = 0
    /\ pm' = [pm EXCEPT !.writer = TRUE, !.locked[a] = @ + 1, !.apc[a] = "insert"]
    /\ UNCHANGED butPm

\* the insert without the second lookup: a new counter replaces the one
\* another Add call stored meanwhile
AddInsertUnchecked(a) ==
    /\ apc[a] = "insert"
    /\ pm' = [pm EXCEPT !.cells = Append(@, 0),
                        !.providers[aProv[a]] = Len(cells) + 1,
                        !.c[a] = Len(cells) + 1,
                        !.apc[a] = "unlock"]
    /\ UNCHANGED butPm

\* the second lookup under the write lock; a new counter is stored when the
\* provider still has none
AddInsert(a) ==
    /\ apc[a] = "insert"
    /\ IF providers[aProv[a]] # 0
       THEN pm' = [pm EXCEPT !.c[a] = providers[aProv[a]], !.apc[a] = "unlock"]
       ELSE pm' = [pm EXCEPT !.cells = Append(@, 0),
                             !.providers[aProv[a]] = Len(cells) + 1,
                             !.c[a] = Len(cells) + 1,
                             !.apc[a] = "unlock"]
    /\ UNCHANGED butPm

\* pm.lock.Unlock()
AddUnlock(a) ==
    /\ apc[a] = "unlock"
    /\ pm' = [pm EXCEPT !.writer = FALSE, !.unlocked[a] = @ + 1, !.apc[a] = "rlock"]
    /\ UNCHANGED butPm

\* pm.lock.RLock() at the end of the slow case
AddRLockAgain(a) ==
    /\ apc[a] = "rlock"
    /\ ~writer
    /\ pm' = [pm EXCEPT !.readers = @ + 1, !.locked[a] = @ + 1, !.apc[a] = "add"]
    /\ UNCHANGED butPm

\* c.Add(1)
AddCount(a) ==
    /\ apc[a] = "add"
    /\ pm' = [pm EXCEPT !.cells[ac[a]] = @ + 1, !.apc[a] = "deferred"]
    /\ UNCHANGED butPm

\* the deferred pm.lock.RUnlock()
AddReturn(a) ==
    /\ apc[a] = "deferred"
    /\ pm' = [pm EXCEPT !.readers = @ - 1, !.unlocked[a] = @ + 1, !.apc[a] = "done"]
    /\ UNCHANGED butPm

\* pm.lock.RLock() of Top
TopRLock ==
    /\ tpc = "start"
    /\ ~writer
    /\ pm' = [pm EXCEPT !.readers = @ + 1, !.locked[Topper] = @ + 1, !.tpc = "range"]
    /\ UNCHANGED butPm

\* the providers the range of Top has visited
Visited == {pairs[i].Provider : i \in 1..Len(pairs)}

\* one round of the range over pm.providers, in the order the map gives
TopLoad(p) ==
    /\ tpc = "range"
    /\ providers[p] # 0
    /\ p \notin Visited
    /\ pm' = [pm EXCEPT !.pairs = Append(@, [Provider |-> p, Count |-> cells[providers[p]]])]
    /\ UNCHANGED butPm

\* the orders sort.Slice can leave ps in: the counts do not increase
Sorted(ps) ==
    {q \in [1..Len(ps) -> {ps[i] : i \in 1..Len(ps)}] :
        /\ \A i, j \in 1..Len(ps) : q[i] = q[j] => i = j
        /\ \A i \in 1..(Len(ps) - 1) : ~(q[i + 1].Count > q[i].Count)}

\* the range is over: sort, cut to cardinality, and the deferred RUnlock
TopReturn ==
    /\ tpc = "range"
    /\ \A p \in Peers : providers[p] # 0 => p \in Visited
    /\ \E q \in Sorted(pairs) :
         LET n == IF cardinality > Len(q) THEN Len(q) ELSE cardinality
         IN pm' = [pm EXCEPT !.top = SubSeq(q, 1, n), !.readers = @ - 1,
                             !.unlocked[Topper] = @ + 1, !.tpc = "done"]
    /\ UNCHANGED butPm

PmNext ==
    \/ \E a \in Adders :
         \/ AddRLock(a)
         \/ AddLookup(a)
         \/ AddRUnlock(a)
         \/ AddLock(a)
         \/ AddInsert(a)
         \/ AddUnlock(a)
         \/ AddRLockAgain(a)
         \/ AddCount(a)
         \/ AddReturn(a)
    \/ TopRLock
    \/ \E p \in Peers : TopLoad(p)
    \/ TopReturn

PmInit ==
    /\ \E card \in 1..Cardinality(Peers), provs \in [Adders -> Peers] :
         pm = PmStart(card, provs)
    /\ ButPmIdle

PmSpec == PmInit /\ [][PmNext]_vars

-----------------------------------------------------------------------------
(* The legacy ReframeService.FindProviders, reframe.go:212-294, over the    *)
(* scatterGather of scatter_gather.go:9-78                                  *)

\* cap(sg.out), cap(gout) and cap(out) of this version
RfCap == 1

\* a FindProvidersAsyncResult
RfResult(ai, err) == [AddrInfo |-> ai, Err |-> err]
\* an answer of b.FindProvidersAsync: an error, or the elements of its channel
RfAnswer(fail, elems) == [fail |-> fail, elems |-> elems]
RfFailed == RfAnswer(TRUE, <<>>)
RfAnswers ==
    {RfFailed,
     RfAnswer(FALSE, <<>>),
     RfAnswer(FALSE, <<RfResult(<<1>>, FALSE)>>),
     RfAnswer(FALSE, <<RfResult(<<1, 2>>, FALSE)>>),
     RfAnswer(FALSE, <<RfResult(<<>>, TRUE)>>),
     RfAnswer(FALSE, <<RfResult(<<2>>, FALSE), RfResult(<<>>, TRUE)>>)}

\* the for r := range ch of the closure, reframe.go:225-234: the addresses
\* of all elements, the last error, and no error next to addresses
RECURSIVE RfFold(_, _)
RfFold(elems, res) ==
    IF elems = <<>>
    THEN IF res.AddrInfo # <<>> THEN RfResult(res.AddrInfo, FALSE) ELSE res
    ELSE RfFold(Tail(elems),
                RfResult(res.AddrInfo \o Head(elems).AddrInfo,
                         res.Err \/ Head(elems).Err))

\* the peers of ais not in seen, each once, in order (reframe.go:262-270)
RECURSIVE RfUnseen(_, _)
RfUnseen(ais, seen) ==
    IF ais = <<>> THEN <<>>
    ELSE IF Head(ais) \in seen THEN RfUnseen(Tail(ais), seen)
    ELSE <<Head(ais)>> \o RfUnseen(Tail(ais), seen \cup {Head(ais)})

\* FindProviders has started the workers and the aggregating goroutine
RfStart(answers) ==
    [ans |-> answers,
     ctx |-> "active",
     wpc |-> [b \in Backends |-> "start"],
     res |-> [b \in Backends |-> <<>>],
     sgOut |-> <<>>,
     sgClosed |-> FALSE,
     gr |-> <<>>,
     gout |-> <<>>,
     goutClosed |-> FALSE,
     pids |-> {},
     lastErr |-> FALSE,
     apc |-> "range",
     result |-> <<>>,
     chan |-> <<>>,
     closed |-> FALSE,
     yielded |-> <<>>]

\* FindProviders returns out: the deferred cancel() runs (reframe.go:218-219)
RfReturn ==
    /\ rfCtx = "active"
    /\ rf' = [rf EXCEPT !.ctx = "canceled"]
    /\ UNCHANGED butRf

\* the worker's first select, scatter_gather.go:25-30
RfWorkerStart(b) ==
    /\ rfWpc[b] = "start"
    /\ rf' = [rf EXCEPT !.wpc[b] = IF rfCtx = "canceled" THEN "done" ELSE "call"]
    /\ UNCHANGED butRf

\* forEach(cctx, target) returns: the backend's answer, or, with cctx
\* cancelled under the call, an error or an error element
RfForEach(b) ==
    /\ rfWpc[b] = "call"
    /\ \E a \in {rfAns[b]} \cup (IF rfCtx = "canceled"
                                 THEN {RfFailed, RfAnswer(FALSE, <<RfResult(<<>>, TRUE)>>)}
                                 ELSE {}) :
         IF a.fail
         THEN rf' = [rf EXCEPT !.wpc[b] = "done"]
         ELSE rf' = [rf EXCEPT !.wpc[b] = "emit",
                               !.res[b] = <<RfFold(a.elems, RfResult(<<>>, FALSE))>>]
    /\ UNCHANGED butRf

\* scatter_gather.go:39-48: nothing is sent once ctx is done
RfWorkerEmit(b) ==
    /\ rfWpc[b] = "emit"
    /\ \/ /\ rfCtx = "canceled"
          /\ rf' = [rf EXCEPT !.wpc[b] = "done"]
       \/ /\ Len(rfSgOut) < RfCap
          /\ rf' = [rf EXCEPT !.sgOut = Append(@, rfRes[b][1]), !.wpc[b] = "done"]
    /\ UNCHANGED butRf

\* sg.wg.Wait() returns and close(sg.out) runs, scatter_gather.go:52-55
RfCloseSgOut ==
    /\ ~rfSgClosed
    /\ \A b \in Backends : rfWpc[b] = "done"
    /\ rf' = [rf EXCEPT !.sgClosed = TRUE]
    /\ UNCHANGED butRf

\* for r := range sg.out of gather, scatter_gather.go:68
RfGatherRecv ==
    /\ rfGr = <<>>
    /\ rfSgOut # <<>>
    /\ rf' = [rf EXCEPT !.gr = <<Head(rfSgOut)>>, !.sgOut = Tail(@)]
    /\ UNCHANGED butRf

\* the select of gather, scatter_gather.go:69-74: r is forwarded, or dropped
\* when ctx is done
RfGatherForward ==
    /\ rfGr # <<>>
    /\ \/ /\ rfCtx = "canceled"
          /\ rf' = [rf EXCEPT !.gr = <<>>]
       \/ /\ Len(rfGout) < RfCap
          /\ rf' = [rf EXCEPT !.gr = <<>>, !.gout = Append(@, rfGr[1])]
    /\ UNCHANGED butRf

\* the range over sg.out ends: close(gout), scatter_gather.go:62-66
RfGatherClose ==
    /\ ~rfGoutClosed
    /\ rfGr = <<>> /\ rfSgOut = <<>> /\ rfSgClosed
    /\ rf' = [rf EXCEPT !.goutClosed = TRUE]
    /\ UNCHANGED butRf

\* one round of for r := range sg.gather(ctx), reframe.go:256-271
RfAggRecv ==
    /\ rfApc = "range"
    /\ rfGout # <<>>
    /\ LET r == Head(rfGout)
           new == RfUnseen(r.AddrInfo, rfPids)
       IN IF r.Err
          THEN rf' = [rf EXCEPT !.gout = Tail(@), !.lastErr = TRUE]
          ELSE rf' = [rf EXCEPT !.gout = Tail(@),
                                !.pids = @ \cup {new[i] : i \in 1..Len(new)},
                                !.result = IF new = <<>> THEN <<>>
                                           ELSE <<RfResult(new, FALSE)>>,
                                !.apc = IF new = <<>> THEN "range" ELSE "send"]
    /\ UNCHANGED butRf

\* the selects at reframe.go:272-277 and 283-287; the deferred close(out)
\* runs when <-ctx.Done() is taken, and after the error element
RfAggSend ==
    /\ rfApc \in {"send", "senderr"}
    /\ \/ /\ rfCtx = "canceled"
          /\ rf' = [rf EXCEPT !.apc = "done", !.closed = TRUE]
       \/ /\ Len(rfChan) < RfCap
          /\ rf' = [rf EXCEPT !.chan = Append(@, rfResult[1]),
                               !.result = <<>>,
                               !.apc = IF rfApc = "send" THEN "range" ELSE "done",
                               !.closed = (rfApc = "senderr")]
    /\ UNCHANGED butRf

\* the range over gout ends, reframe.go:281-288
RfAggFinish ==
    /\ rfApc = "range"
    /\ rfGout = <<>> /\ rfGoutClosed
    /\ IF rfPids = {} /\ rfLastErr
       THEN rf' = [rf EXCEPT !.apc = "senderr", !.result = <<RfResult(<<>>, TRUE)>>]
       ELSE rf' = [rf EXCEPT !.apc = "done", !.closed = TRUE]
    /\ UNCHANGED butRf

\* the caller, which does not cancel, receives from the returned channel
RfCallerRecv ==
    /\ rfChan # <<>>
    /\ rf' = [rf EXCEPT !.chan = Tail(@), !.yielded = Append(@, Head(rfChan))]
    /\ UNCHANGED butRf

RfNext ==
    \/ RfReturn
    \/ \E b \in Backends : RfWorkerStart(b)
    \/ \E b \in Backends : RfForEach(b)
    \/ \E b \in Backends : RfWorkerEmit(b)
    \/ RfCloseSgOut
    \/ RfGatherRecv
    \/ RfGatherForward
    \/ RfGatherClose
    \/ RfAggRecv
    \/ RfAggSend
    \/ RfAggFinish
    \/ RfCallerRecv

RfInit ==
    /\ \E answers \in [Backends -> RfAnswers] : rf = RfStart(answers)
    /\ ButRfIdle

RfSpec == RfInit /\ [][RfNext]_vars

-----------------------------------------------------------------------------
(* Properties *)

\* forEach returned a non-nil result and no error (find.go:270, 292)
ResultOutcomes == {"ok200", "doerr"}
\* forEach returned an error (find.go:254, 267, 282, 290, 304)
ErrorOutcomes == {"reqerr", "ctxerr", "readerr", "bad200", "s4xx", "s5xx"}

\* doFind's loop has read gout until it was closed
ReadUntilClosed == dpc = "returned" /\ status # StatusInternalServerError
\* the caller never cancelled ctx while the request ran
NeverCancelled == ctx # "canceled"
\* the results in flight: buffered in sg.out or gout, or held by gather
InFlight(b) ==
    \/ \E k \in 1..Len(out) : out[k].src = b
    \/ \E k \in 1..Len(gout) : gout[k].src = b
    \/ gr.src = b

\* C1 -- Completeness: when ctx is never cancelled, every breaker is ready and
\* every forEach returns a non-nil result without error before maxWait, the
\* results read from gather() until it closes hold exactly one result per
\* target; and no target ever has more than one result read.
C1_Completeness ==
    /\ \A b \in Backends : got[b] <= 1
    /\ ( /\ ReadUntilClosed
         /\ NeverCancelled
         /\ \A b \in Backends :
              cbReady[b] = "ready" /\ fe[b] \in ResultOutcomes /\ ~expired[b] )
       => \A b \in Backends : got[b] = 1

C1_Witness ==
    /\ ReadUntilClosed
    /\ NeverCancelled
    /\ \A b \in Backends :
         cbReady[b] = "ready" /\ fe[b] \in ResultOutcomes /\ ~expired[b] /\ got[b] = 1

\* C2 -- Error isolation: a worker whose forEach returned an error never has a
\* result read or in flight; and when gout was read until closed with ctx
\* never cancelled, a result was read from exactly the workers whose forEach
\* returned a non-nil result without error.
C2_ErrorIsolation ==
    /\ \A b \in Backends :
         fe[b] \in ErrorOutcomes => (got[b] = 0 /\ ~InFlight(b) /\ pc[b] = "done")
    /\ (ReadUntilClosed /\ NeverCancelled)
       => \A b \in Backends : got[b] = (IF fe[b] \in ResultOutcomes THEN 1 ELSE 0)

C2_Witness ==
    /\ ReadUntilClosed
    /\ NeverCancelled
    /\ \E b, c \in Backends :
         fe[b] \in ErrorOutcomes /\ got[b] = 0 /\ fe[c] = "ok200" /\ got[c] = 1

\* C3 -- Deadline: with ctx not cancelled by the caller, a worker whose forEach
\* returned only after maxWait had elapsed has no result read from gather().
C3_Deadline ==
    NeverCancelled =>
        \A b \in Backends : (expired[b] /\ fe[b] # NoRet) => got[b] = 0

\* C4 -- Pre-cancellation: if ctx is already cancelled when scatter is called,
\* forEach is never invoked and no result is emitted, forwarded or read.
C4_PreCancelled ==
    preCancelled =>
        /\ \A b \in Backends :
             /\ pc[b] \notin {"call", "send"}
             /\ fe[b] = NoRet
             /\ got[b] = 0
        /\ out = <<>>
        /\ gout = <<>>
        /\ status \in {0, StatusNotFound}

C4_Witness ==
    /\ preCancelled
    /\ dpc = "returned"
    /\ \E b \in Backends : cbReady[b] = "ready" /\ pc[b] = "done"

\* C5 -- Breaker gating: a backend whose breaker answered not-ready when
\* scatter reached it has no worker, forEach is never invoked for it, nothing
\* is recorded on its breaker and no result of it is in flight or read; a
\* backend whose breaker answered ready gets its worker.
C5_BreakerGating ==
    \A b \in Backends :
        /\ cbReady[b] = "notready" =>
             /\ pc[b] = "skipped"
             /\ fe[b] = NoRet
             /\ cbRec[b] = "none"
             /\ got[b] = 0
             /\ ~InFlight(b)
        /\ cbReady[b] = "ready" => pc[b] \in {"start", "call", "send", "done"}

C5_Witness ==
    /\ ReadUntilClosed
    /\ \E b, c \in Backends :
         /\ cbReady[b] = "notready" /\ got[b] = 0
         /\ cbReady[c] = "ready" /\ got[c] = 1

\* C6 -- Cancellation wins over emission: once the caller has cancelled ctx, no
\* further result is read from gather().
C6_CancellationWins == [][ctx = "canceled" => got' = got]_vars

\* every goroutine of the request has ended
AllWorkersDone == \A b \in Backends : pc[b] \in {"skipped", "done"}
NoGoroutineLeft == AllWorkersDone /\ outClosed /\ gpc = "done"

\* C7 -- Gather termination: gout is closed, and never closed twice; it is
\* closed once all workers have finished or ctx is cancelled, and the range
\* loop of the consumer ends.
C7_GatherTerminates ==
    /\ [](goutCloses <= 1)
    /\ <>(goutCloses = 1)
    /\ ((dpc # "scatter" /\ (AllWorkersDone \/ ctxDone)) ~> (goutCloses = 1))
    /\ <>(dpc = "returned")

C7_Witness ==
    /\ goutCloses = 1
    /\ dpc = "returned"
    /\ ctx = "returned"
    /\ \E b \in Backends : got[b] = 1

\* C8 -- No leaked workers: once ctx is cancelled (by the caller, or by doFind
\* returning, also when it returns early on a conflict) every worker, the
\* goroutine closing sg.out and the gather goroutine end.
C8_NoLeakedWorkers == ctxDone ~> NoGoroutineLeft

\* ctx is cancelled while a worker is blocked on its send to a full sg.out
C8_Witness ==
    /\ ctxDone
    /\ \E b \in Backends : pc[b] = "send" /\ Len(out) = OutCap

\* the workers whose transport error was read by doFind's loop
ReportedErrors == {b \in Backends : fe[b] = "doerr" /\ got[b] = 1}
NoEntries ==
    Len(resp.MultihashResults) = 0 /\ Len(resp.EncryptedMultihashResults) = 0

\* C9 -- Status decision: when gout closed without a conflict, doFind returns
\* 504 if the merged response has no entries and a worker reported a transport
\* error, 404 if it has no entries and no worker reported one (so when every
\* backend asked answered 404), and 200 otherwise.
C9_StatusDecision ==
    ReadUntilClosed =>
        /\ status = (IF NoEntries
                     THEN (IF ReportedErrors # {} THEN StatusGatewayTimeout
                           ELSE StatusNotFound)
                     ELSE StatusOK)
        /\ (\A b \in Backends : fe[b] \in {NoRet, "s404", "ineligible"})
               => status = StatusNotFound
        /\ (NeverCancelled /\ NoEntries /\ \E b \in Backends : fe[b] = "doerr")
               => status = StatusGatewayTimeout

C9_Witness ==
    /\ ReadUntilClosed
    /\ status = StatusGatewayTimeout
    /\ \E b, c \in Backends : fe[b] = "doerr" /\ fe[c] = "s404"

\* the backends doFind sent a request to
Asked == {b \in Backends : fe[b] \notin {NoRet, "ineligible"}}
\* connect failure, failure reading the body, unparseable body, timeout, 5xx
FailureOutcomes == {"doerr", "readerr", "bad200", "ctxerr", "s5xx"}

\* C10 -- Total failure yields 504: if every backend that was asked failed,
\* doFind returns 504.
C10_TotalFailure ==
    (dpc = "returned" /\ NeverCancelled /\ Asked # {}
        /\ \A b \in Asked : fe[b] \in FailureOutcomes)
    => status = StatusGatewayTimeout

\* C11 -- 504 only on total failure: when doFind returns 504 for a request
\* that the caller never cancelled, no backend that was asked completed its
\* request, that is none answered 200 or 404.
C11_Only504OnTotalFailure ==
    (dpc = "returned" /\ NeverCancelled /\ status = StatusGatewayTimeout)
        => \A b \in Asked : fe[b] \notin {"ok200", "s404"}

\* the backends that answered 200 with a non-empty result
Succeeded == {b \in Backends : mfe[b] = "ok200" /\ mbody[b] # EmptyRsp}
\* the backends that timed out, could not be connected to or answered 5xx
Failed == {b \in Backends : mfe[b] \in {"ctxerr", "doerr", "s5xx"}}

\* C12 -- Partial success: when a backend answered 200 with a non-empty result
\* and every other backend failed, doFind returns 200 with exactly that
\* backend's results; and whatever the other backends' failures, a request
\* with a successful backend and no conflict returns 200 and never 404 or 504.
C12_PartialSuccess ==
    /\ \A b \in Succeeded :
         (mStatus # 0 /\ Failed = Backends \ {b})
             => (mStatus = StatusOK /\ mResp = mbody[b])
    /\ (mStatus \notin {0, StatusInternalServerError} /\ Succeeded # {})
           => mStatus = StatusOK

\* the connect failure of one backend is read before the result of the other
C12_Witness ==
    /\ mStatus = StatusOK
    /\ \E b \in Succeeded, c \in Failed :
         /\ Failed = Backends \ {b}
         /\ mfe[c] = "doerr"
         /\ \E i, j \in 1..Len(mOrder) : i < j /\ mOrder[i] = c /\ mOrder[j] = b

\* the provider results of the merged entry, and of the entry of a backend
MergedPRs ==
    IF Len(mResp.MultihashResults) = 0 THEN <<>>
    ELSE mResp.MultihashResults[1].ProviderResults
BackendPRs(b) ==
    IF Len(mbody[b].MultihashResults) = 0 THEN <<>>
    ELSE mbody[b].MultihashResults[1].ProviderResults
\* the backends whose 200 response the loop read
Gathered == {b \in Backends : mfe[b] = "ok200" /\ \E k \in 1..Len(mOrder) : mOrder[k] = b}

\* C13 -- JSON dedup: when every gathered response lists each (ContextID,
\* ProviderID) pair at most once, the merged provider results list no pair
\* twice, at every point of the loop and in the response returned.
C13_JsonDedup ==
    (\A b \in Gathered : NoRepeat(BackendPRs(b))) => NoRepeat(MergedPRs)

\* two gathered responses for the same multihash share a pair, and the later
\* one lists a new pair before the shared one
C13_Witness ==
    /\ mStatus = StatusOK
    /\ \E i, j \in 1..Len(mOrder) :
         /\ i < j
         /\ NoRepeat(BackendPRs(mOrder[i])) /\ NoRepeat(BackendPRs(mOrder[j]))
         /\ Len(BackendPRs(mOrder[j])) = 2
         /\ \E k \in 1..Len(BackendPRs(mOrder[i])) :
              SamePR(BackendPRs(mOrder[i])[k], BackendPRs(mOrder[j])[2])
         /\ Len(MergedPRs) > Len(BackendPRs(mOrder[i]))

\* C14 -- Union of results: the response doFind returns with 200 lists every
\* (ContextID, ProviderID) pair of every gathered 200 response.
C14_Union ==
    mStatus = StatusOK =>
        \A b \in Gathered : \A k \in 1..Len(BackendPRs(b)) :
            \E j \in 1..Len(MergedPRs) : SamePR(MergedPRs[j], BackendPRs(b)[k])

\* the multihash of the entry of a backend's response, 0 when it has none
EntryMultihash(b) ==
    IF Len(mbody[b].MultihashResults) > 0 THEN mbody[b].MultihashResults[1].Multihash
    ELSE IF Len(mbody[b].EncryptedMultihashResults) > 0
         THEN mbody[b].EncryptedMultihashResults[1].Multihash
         ELSE 0
\* two responses the loop read carry entries of different multihashes
Conflicting ==
    \E b, c \in Gathered :
        EntryMultihash(b) # 0 /\ EntryMultihash(c) # 0
            /\ EntryMultihash(b) # EntryMultihash(c)

\* C15 -- Conflict yields 500: as soon as the loop has read two responses
\* whose entries differ in their multihash, plain or encrypted and in either
\* order of arrival, doFind has returned 500, which carries no body; and it
\* returns 500 in no other case.
C15_Conflict ==
    /\ Conflicting => mStatus = StatusInternalServerError
    /\ mStatus = StatusInternalServerError => Conflicting

\* results of the first response were merged before the conflict was read
C15_Witness ==
    /\ mStatus = StatusInternalServerError
    /\ Len(mOrder) >= 2
    /\ EntryMultihash(mOrder[1]) = 2
    /\ EntryMultihash(mOrder[Len(mOrder)]) = 1
    /\ mResp # EmptyRsp

\* the encrypted value keys of the merged entry, and of the entry of a backend
MergedKeys ==
    IF Len(mResp.EncryptedMultihashResults) = 0 THEN <<>>
    ELSE mResp.EncryptedMultihashResults[1].EncryptedValueKeys
BackendKeys(b) ==
    IF Len(mbody[b].EncryptedMultihashResults) = 0 THEN <<>>
    ELSE mbody[b].EncryptedMultihashResults[1].EncryptedValueKeys

RECURSIVE ConcatKeys(_)
\* the keys of the first k results the loop read, in the order it read them
ConcatKeys(k) ==
    IF k = 0 THEN <<>> ELSE ConcatKeys(k - 1) \o BackendKeys(mOrder[k])

\* C16 -- Concatenation for dh: in a double-hashed find without conflict, the
\* merged EncryptedValueKeys are the keys of every gathered response, in the
\* order the responses were read, each key as often as it was returned.
C16_ConcatDh ==
    (mEncrypted /\ mStatus # StatusInternalServerError)
        => MergedKeys = ConcatKeys(Len(mOrder))

\* two dh backends answered for the same multihash and both returned key 1
C16_Witness ==
    /\ mEncrypted
    /\ mStatus = StatusOK
    /\ \E i, j \in 1..Len(mOrder) :
         /\ i < j
         /\ BackendKeys(mOrder[i]) = <<1, 2>>
         /\ BackendKeys(mOrder[j]) = <<1>>
    /\ Len(MergedKeys) >= 3

\* the backends the handler issued an HTTP request to
Sent == {b \in Backends : rpc[b] = "sent"}
\* the request is a find, served by doFind or doFindNDJson
IsFind == rq.route \in FindRoutes

\* C17 -- dh eligibility: a find whose multihash has code DBL_SHA2_256, on
\* any find route and with any Accept header, issues an HTTP request to dh
\* backends only.
C17_DhEligibility ==
    (IsFind /\ rq.code = "DBL_SHA2_256")
        => \A b \in Sent : rKind[b] = "dh"

\* C18 -- Plain eligibility: a find whose multihash has another code issues no
\* HTTP request to a dh backend; no find issues one to a providers-only
\* backend; and a backend is asked only if its matcher accepts the request.
C18_PlainEligibility ==
    IsFind =>
        \A b \in Sent :
            /\ rq.code # "DBL_SHA2_256" => rKind[b] # "dh"
            /\ rKind[b] # "providers"
            /\ Matches(rKind[b], cascadeLabels, rq)

\* C19 -- NDJSON uses the same routing as JSON: doFindNDJson issues an HTTP
\* request to a backend exactly when doFind would for the same request.
C19_SameRouting ==
    handler = "doFindNDJson" =>
        \A b \in Backends :
            rpc[b] \notin {"idle", "skipped"} =>
                (rpc[b] = "sent") =
                    (DoFindClosure(rKind[b], RouteEncrypted(rq.route),
                                   Matches(rKind[b], cascadeLabels, rq)) = "sent")

\* C20 -- find-metadata eligibility: a find-metadata request is issued to dh
\* backends only; the handler answers 200 with the non-empty body of a 200
\* response it gathered from a dh backend, and 404 when it gathered none.
C20_Metadata ==
    rq.route = MetadataRoute =>
        /\ \A b \in Sent : rKind[b] = "dh"
        /\ mdStatus \in {0, StatusOK, StatusNotFound}
        /\ mdStatus = StatusOK =>
              /\ mdBody \in mdRead
              /\ rKind[mdBody] = "dh"
              /\ mdReply[mdBody] = "ok_body"
        /\ mdStatus = StatusNotFound =>
              /\ mdBody = 0
              /\ \A b \in Sent : mdReply[b] # "ok_body"

\* a plain backend was passed over, a dh backend answered 200 with an empty
\* body and another with metadata, and the handler answered with the latter
C20_Witness ==
    /\ rq.route = MetadataRoute
    /\ mdStatus = StatusOK
    /\ \E b \in Backends : rpc[b] = "ineligible" /\ rKind[b] \in {"plain", "cascade", "providers"}
    /\ \E b \in Sent : b = mdBody /\ mdReply[b] = "ok_body"

\* the backends whose closure has run for the request
Reached == {b \in Backends : rpc[b] \notin {"idle", "skipped"}}
\* the request is a find on a route that is not encrypted
IsPlainFind == IsFind /\ ~RouteEncrypted(rq.route)

\* C21 -- Cascade labels: with labels configured, a find on a plain route asks
\* a cascade backend exactly when one of the values of the request's cascade
\* query parameter is a configured label; plain backends are asked whatever
\* the parameter.
C21_CascadeLabels ==
    (IsPlainFind /\ cascadeLabels # {}) =>
        \A b \in Reached :
            /\ rKind[b] = "cascade" =>
                 ((rpc[b] = "sent") = (rq.cascade \cap cascadeLabels # {}))
            /\ rKind[b] = "plain" => rpc[b] = "sent"

\* the second of the request's two values is the second configured label:
\* the cascade backend is asked; and a request without it: only the plain one
C21_Witness ==
    /\ IsPlainFind
    /\ cascadeLabels = {"ipfs-dht", "ipni"}
    /\ \E b, c \in Reached :
         /\ rKind[b] = "cascade" /\ rKind[c] = "plain" /\ rpc[c] = "sent"
         /\ \/ rq.cascade = {"legacy", "ipni"} /\ rpc[b] = "sent"
            \/ rq.cascade = {"legacy"} /\ rpc[b] = "unmatched"

\* C22 -- Cascade opt-in: whatever the configuration, a find that carries no
\* cascade query parameter is not sent to a cascade backend.
C22_CascadeOptIn ==
    (IsFind /\ rq.cascade = {}) => \A b \in Sent : rKind[b] # "cascade"

\* C23 -- 4xx is not a breaker failure: for a backend that answered with a
\* status below 500 other than 200 and 404, the worker records a success on
\* its breaker, never a failure, and no result of it is in flight or read.
C23_4xxIsSuccess ==
    \A b \in Backends :
        fe[b] = "s4xx" =>
            /\ cbRec[b] = "success"
            /\ got[b] = 0
            /\ ~InFlight(b)
            /\ pc[b] = "done"

\* one backend answered 4xx and the result of the other was read
C23_Witness ==
    /\ ReadUntilClosed
    /\ \E b, c \in Backends :
         fe[b] = "s4xx" /\ cbRec[b] = "success" /\ fe[c] = "ok200" /\ got[c] = 1

\* C24 -- 5xx is a breaker failure: for a backend that answered 5xx the
\* worker records a failure on its breaker.
C24_5xxIsFailure ==
    \A b \in Backends : fe[b] = "s5xx" => cbRec[b] = "fail"

\* C25 -- Transport failures reach the breaker: for a backend that could not
\* be connected to, or whose response could not be read, the worker records a
\* failure on its breaker.
C25_TransportIsFailure ==
    \A b \in Backends : fe[b] \in {"doerr", "readerr"} => cbRec[b] = "fail"

\* C26 -- Cancellation is not a breaker failure: for a backend whose call
\* ended with a context error after the caller cancelled ctx, nothing is
\* recorded as a failure on its breaker.
C26_CancelIsNoFailure ==
    \A b \in Backends :
        (ctx = "canceled" /\ fe[b] = "ctxerr") => cbRec[b] = "none"

\* the caller cancelled while the call was in flight, before maxWait
C26_Witness ==
    /\ ctx = "canceled"
    /\ ~preCancelled
    /\ \E b \in Backends : fe[b] = "ctxerr" /\ ~expired[b] /\ pc[b] = "done"

\* C27 -- Silent unwind on client cancel: when the caller's context was
\* cancelled and no backend result had been read by then, the find handler
\* writes no response status.
C27_SilentUnwind ==
    (ctx = "canceled" /\ \A b \in Backends : got[b] = 0) => status = 0

\* the encoder loop takes a record from resultsChan
RecvStep == resultsChan # <<>> /\ stream'.resultsChan = Tail(resultsChan)
\* two records with the same providerID and contextID, or the same
\* encrypted value key
SameKey(r1, r2) == KeyBytes(r1) = KeyBytes(r2) /\ (r1.evk = 0) = (r2.evk = 0)
\* two records whose keys have the same checksum
SameChecksum(r1, r2) == Checksum(KeyBytes(r1)) = Checksum(KeyBytes(r2))

\* C28 -- NDJSON dedup by key: within one NDJSON response no two written
\* records have the same key, and a record the loop receives whose key is
\* not the key of a written record is written.
C28_DedupByKey ==
    /\ [](\A i, j \in 1..Len(sWritten) :
             SameKey(sWritten[i], sWritten[j]) => i = j)
    /\ [][RecvStep =>
            LET r == Head(resultsChan)
            IN (\A i \in 1..Len(sWritten) : ~SameKey(sWritten[i], r))
                   => stream'.written = Append(sWritten, r)]_vars

\* C28 -- NDJSON dedup by checksum: within one NDJSON response no two
\* written records have keys with the same checksum, so no two have the same
\* key; a record the loop receives is written, once, exactly when the
\* checksum of its key is not that of a written record, and is dropped
\* otherwise.
C28_DedupByChecksum ==
    /\ [](\A i, j \in 1..Len(sWritten) :
             (SameChecksum(sWritten[i], sWritten[j]) \/ SameKey(sWritten[i], sWritten[j]))
                 => i = j)
    /\ [][RecvStep =>
            LET r == Head(resultsChan)
            IN stream'.written =
                   IF \E i \in 1..Len(sWritten) : SameChecksum(sWritten[i], r)
                   THEN sWritten
                   ELSE Append(sWritten, r)]_vars

\* two backends answered with the same record, the loop received both and
\* wrote one
C28_Witness ==
    /\ lpc = "closed"
    /\ \E b, c \in Backends, r \in StreamRecords :
         /\ b # c
         /\ \E i \in 1..sSent[b] : sBody[b][i] = r
         /\ \E i \in 1..sSent[c] : sBody[c][i] = r
         /\ Cardinality({i \in 1..Len(sWritten) : sWritten[i] = r}) = 1

RECURSIVE Listed(_)
Listed(values) ==
    IF values = <<>> THEN {}
    ELSE {Split(Head(values))[i] : i \in 1..Len(Split(Head(values)))}
             \cup Listed(Tail(values))
\* what a listed text names
NamesNDJson(t) == t = <<"application/x-ndjson">>
NamesJson(t) == t \in {<<"application/json">>, <<" Application/JSON;q=0.9">>}
NamesAny(t) == t = <<"*/*;q=0.8">>
NamesOther(t) == t = <<"text/html">>
\* some listed text is not a media type
Unparseable ==
    \E t \in Listed(aHeader) :
        ~(NamesNDJson(t) \/ NamesJson(t) \/ NamesAny(t) \/ NamesOther(t))
RespondsJson ==
    outcome = IF aTranslate THEN "doFindNDJson translate" ELSE "doFind"

\* C30 -- Accept negotiation on find: an Accept text that is not a media type
\* yields 400; otherwise a request that lists application/x-ndjson gets the
\* NDJSON aggregator, whatever else it lists; otherwise one that lists
\* application/json or */*, or has no Accept header, gets JSON; otherwise,
\* listing only other media types, it gets 400.  When every text parses
\* getAccepts sets exactly the flags of the recognised types listed in any
\* value.
C30_AcceptNegotiation ==
    outcome # "none" =>
        LET L == Listed(aHeader)
            nd == \E t \in L : NamesNDJson(t)
            js == \E t \in L : NamesJson(t)
            an == \E t \in L : NamesAny(t)
        IN IF Unparseable
           THEN acc.err /\ outcome = "400 invalid Accept header"
           ELSE /\ acc = [any |-> an, ndjson |-> nd, json |-> js,
                          acceptHeaderFound |-> aHeader # <<>>, err |-> FALSE]
                /\ nd => outcome = "doFindNDJson"
                /\ (~nd /\ (js \/ an \/ aHeader = <<>>)) => RespondsJson
                /\ (~nd /\ ~js /\ ~an /\ aHeader # <<>>) =>
                       outcome = "400 unsupported media type"

\* JSON and */* in the first value, NDJSON in the second: NDJSON is chosen
C30_Witness ==
    /\ outcome = "doFindNDJson"
    /\ aHeader = <<<<" Application/JSON;q=0.9", Comma, "*/*;q=0.8">>,
                   <<"application/x-ndjson">>>>

\* the LastAdvertisementTime texts the backends returned for peer q
Returned(q) == {pAnswer[b][q] : b \in Backends} \ {NoAnswer}

\* C31 -- Provider-info merge: in the answer written by /providers or
\* /providers/{id}, the record of a peer for which some backend returned a
\* parseable lastAdvertisementTime has the latest of the parseable times
\* returned for that peer, whatever the order the answers were read in.
C31_LatestWins ==
    pStatus = StatusOK =>
        \A q \in Peers :
            LET times == {ParseTime(x).t : x \in {y \in Returned(q) : ParseTime(y).ok}}
                kept == ParseTime(pResp[q].LastAdvertisementTime)
            IN times # {} => kept.ok /\ \A t \in times : t <= kept.t

\* C32 -- Hot reload is atomic: the backend slice a request scatters over is
\* one of the slices that were built, whole: its length is the length of its
\* array; and while no Reload has built a slice, s.backends is the slice the
\* server started with.
C32_ReloadAtomic ==
    /\ \A r \in Requests :
         toRead[r] = {} => snapshot[r].len = backendSets[snapshot[r].array]
    /\ Len(backendSets) = 1 => installed = [array |-> 1, len |-> backendSets[1]]

\* the provider results the core find answered with
XResults == xBody.MultihashResults[1]
\* the peers with a provider result whose metadata begins with the bytes of
\* the Bitswap transport varint (128, 18)
BitswapPeers ==
    {XResults[i].ID : i \in {j \in 1..Len(XResults) :
        Len(XResults[j].Metadata) >= 2
            /\ XResults[j].Metadata[1] = 128 /\ XResults[j].Metadata[2] = 18}}
\* the core find answered 200 with a body of one multihash result
Reshapable == xStatus = StatusOK /\ xBody.parses /\ Len(xBody.MultihashResults) = 1

XlateSafe ==
    /\ Len(xOut) <= 1
    /\ xClosed = (xpc = "returned")
    /\ xStatus = StatusNotFound => xOut = <<>>
    /\ \A i \in 1..Len(xOut) :
         IF Reshapable
         THEN /\ xOut[i].Err = "nil"
              /\ {xOut[i].AddrInfo[k] : k \in 1..Len(xOut[i].AddrInfo)} = BitswapPeers
              /\ \A k, l \in 1..Len(xOut[i].AddrInfo) :
                   xOut[i].AddrInfo[k] = xOut[i].AddrInfo[l] => k = l
         ELSE xOut[i].Err # "nil" /\ xOut[i].AddrInfo = <<>>
    /\ (xClosed /\ xCtx = "active" /\ xStatus # StatusNotFound) => Len(xOut) = 1
    /\ (xCtx = "active" /\ xCaller = "gone" /\ xStatus # StatusNotFound) => ~xClosed

\* C33 -- Reframe translator result protocol: FindProviders emits at most one
\* element and none after a 404; after another status than 200, or a body
\* that does not parse or has not one multihash result, the one element has
\* Err set; otherwise it lists once each exactly the providers whose
\* metadata begins with the Bitswap varint; when ctx is not cancelled it is
\* emitted before out is closed.  Once ctx is cancelled the goroutine
\* returns and out is closed, also when the caller has stopped receiving.
C33_ResultProtocol == []XlateSafe /\ (xCtx = "canceled" ~> xClosed)

\* one element with a Bitswap provider listed once although it was returned
\* twice, a second time with other metadata after Bitswap
C33_Witness ==
    /\ xClosed
    /\ xCtx = "active"
    /\ Reshapable
    /\ Len(xOut) = 1
    /\ Len(XResults) = 2
    /\ XResults[1].ID = XResults[2].ID
    /\ XResults[1].Metadata # XResults[2].Metadata
    /\ IsBitswapMetadata(XResults[1].Metadata) /\ IsBitswapMetadata(XResults[2].Metadata)
    /\ Len(xOut[1].AddrInfo) = 1

\* the status delegatedTranslator.find answers a GET with, from the status and
\* the response the core find returned
DelegatedFindStatus(rcode, body) ==
    IF rcode # StatusOK THEN rcode
    ELSE IF Len(body.MultihashResults) # 1 THEN StatusInternalServerError
    ELSE StatusOK

\* C34: GET /encrypted/providers/{cid} calls the core find with encrypted set
\* and, when the core find returns 200 with results, answers 200 and not an
\* error status.
C34_EncryptedDelegated ==
    (encrypted /\ status = StatusOK) => DelegatedFindStatus(status, resp) = StatusOK

\* the number of entries of seq for which Test holds
Count(seq, Test(_)) == Cardinality({i \in 1..Len(seq) : Test(seq[i])})

\* C35: for every provider result in a 200 JSON find response, Add was called
\* exactly once with its provider ID during the request, the results of the
\* first gathered response included: per provider, as many calls as results.
C35_ProviderCounting ==
    (mStatus = StatusOK /\ mResp.MultihashResults # <<>>) =>
        \A p \in {1, 2} :
            LET IsP(x) == x = p
                OfP(pr) == pr.ProviderID = p
            IN Count(mAdds, IsP) = Count(mResp.MultihashResults[1].ProviderResults, OfP)

\* the Add calls made for provider p
AddsFor(p) == Cardinality({a \in Adders : aProv[a] = p})
\* the goroutines that hold pm.lock for reading
ReadHolders ==
    {a \in Adders : apc[a] \in {"lookup", "runlock", "add", "deferred"}}
        \cup (IF tpc = "range" THEN {Topper} ELSE {})
\* those that hold it for writing
WriteHolders == {a \in Adders : apc[a] \in {"insert", "unlock"}}
AddsDone == \A a \in Adders : apc[a] = "done"

\* C36: whatever the interleaving of concurrent Add calls and a Top call,
\* the lock is held by one writer or by readers only and each goroutine
\* releases what it acquired, once; when all Add calls are over the counter
\* of each provider is the number of Add calls made for it; Top returns at
\* most cardinality entries with counts that do not increase.
C36_ProviderMapSafe ==
    /\ readers = Cardinality(ReadHolders)
    /\ writer = (WriteHolders # {})
    /\ Cardinality(WriteHolders) <= 1
    /\ writer => readers = 0
    /\ \A g \in Adders \cup {Topper} :
         locked[g] - unlocked[g] = (IF g \in ReadHolders \cup WriteHolders THEN 1 ELSE 0)
    /\ AddsDone =>
         \A p \in Peers :
            IF AddsFor(p) = 0 THEN providers[p] = 0
            ELSE providers[p] # 0 /\ cells[providers[p]] = AddsFor(p)
    /\ tpc = "done" =>
         /\ Len(top) <= cardinality
         /\ \A i \in 1..(Len(top) - 1) : top[i].Count >= top[i + 1].Count
         /\ \A i, j \in 1..Len(top) : top[i].Provider = top[j].Provider => i = j

\* two Add calls for the same new provider both took the slow case, and Top
\* read the counter between their increments
C36_Witness ==
    /\ AddsDone /\ tpc = "done"
    /\ \E a, b \in Adders :
         a # b /\ aProv[a] = aProv[b] /\ locked[a] = 3 /\ locked[b] = 3
    /\ Len(top) = 1 /\ top[1].Count = 1

\* C37: in doFindNDJson resultsChan is closed only after every worker has
\* returned, so no worker attempts a send on the closed channel, also when
\* the request context is cancelled while workers are mid-stream.
C37_NoSendOnClosed == ~sPanic

\* C38: a request records a success or a failure only on the breaker of a
\* backend it sent an HTTP request to; a backend skipped as ineligible (wrong
\* kind, or rejected by its matcher) has nothing recorded by the request.
C38_BreakerFrame ==
    \A b \in Backends : fe[b] = "ineligible" => cbRec[b] = "none"

\* the plain records over two provider IDs and two context IDs
PlainRecords == {PlainRecord(p, c) : p \in {1, 2}, c \in {1, 2}}
\* plain records with the same (providerID, contextID) pair
SamePair(r1, r2) ==
    r1.evk = 0 /\ r2.evk = 0 /\ r1.provider = r2.provider /\ r1.contextID = r2.contextID
\* the loop takes a plain record whose pair is the pair of no written record
RecvNewPair ==
    /\ RecvStep
    /\ Head(resultsChan).evk = 0
    /\ \A i \in 1..Len(sWritten) : ~SamePair(sWritten[i], Head(resultsChan))

Yields == rfYielded \o rfChan
\* the peers a worker got from its backend within the deadline
GotPeers ==
    UNION {{rfRes[b][1].AddrInfo[i] : i \in 1..Len(rfRes[b][1].AddrInfo)} :
               b \in {c \in Backends : rfRes[c] # <<>>}}
\* the peers the returned channel yields
YieldedPeers ==
    UNION {{Yields[k].AddrInfo[i] : i \in 1..Len(Yields[k].AddrInfo)} :
               k \in 1..Len(Yields)}

\* C40: the caller of the legacy FindProviders does not cancel; when a
\* backend returned providers within the deadline, the returned channel
\* yields them before it is closed, each peer at most once and with no
\* error element; an error element is yielded only when no provider was
\* found and a backend reported an error.
C40_ReframeDelivers ==
    /\ rfClosed => GotPeers \subseteq YieldedPeers
    /\ \A k, l \in 1..Len(Yields) :
         \A i \in 1..Len(Yields[k].AddrInfo), j \in 1..Len(Yields[l].AddrInfo) :
            Yields[k].AddrInfo[i] = Yields[l].AddrInfo[j] => k = l /\ i = j
    /\ \A k \in 1..Len(Yields) :
         Yields[k].Err => rfPids = {} /\ rfLastErr /\ YieldedPeers = {}

====
